---------------------------- MODULE Spec2Model ----------------------------
(***************************************************************************)
(* ssh-menu: the configuration parser (internal/config.go), the host       *)
(* registry (internal/host.go) and the interactive selector                *)
(* (internal/ui.go), as state machines.                                    *)
(*                                                                         *)
(* A Go string is modelled as the sequence of its bytes; a byte is a       *)
(* one-character TLA+ string ("a", " ", "#"), and the two bytes of a       *)
(* non-ASCII rune are the tokens "\xC3" and "\xA9".                        *)
(***************************************************************************)
EXTENDS Integers, Sequences, FiniteSets, TLC

(***************************************************************************)
(* Bounds of the model.                                                    *)
(***************************************************************************)
\* Longest configuration file, in lines.
MaxLines == 4
\* Longest host list handed to the registry.
MaxHosts == 3
\* Longest host list handed to the selector.
MaxUIHosts == 2
\* Longest filter text, in bytes.
MaxFilterLen == 2
\* Longest configuration file ApplyColorConfig reads, in lines.
MaxColorLines == 2
\* Most entries in the listing of config.d.
MaxDirEntries == 2
\* Longest host list ReadConfigFiles returns to main.
MaxMainHosts == 2
\* Most lines after the first block of a file of field lines.
MaxFieldLines == 3

(***************************************************************************)
(* Strings.                                                                *)
(***************************************************************************)
\* The bytes the model uses, in ascending byte order.
ByteOrder ==
    << "\t", " ", "#", "*", "-", ".", "0", "1", "2", "3", "4", "5", "6", "7", "8", "9", ":",
       "A", "B", "C", "D", "E", "F", "G", "H", "I", "J", "K", "L", "M",
       "N", "O", "P", "Q", "R", "S", "T", "U", "V", "W", "X", "Y", "Z",
       "a", "b", "c", "d", "e", "f", "g", "h", "i", "j", "k", "l", "m",
       "n", "o", "p", "q", "r", "s", "t", "u", "v", "w", "x", "y", "z",
       "\\xA9", "\\xBD", "\\xBF", "\\xC3", "\\xEF" >>

Ord(c) == CHOOSE i \in 1..Len(ByteOrder) : ByteOrder[i] = c

DigitBytes == <<"0", "1", "2", "3", "4", "5", "6", "7", "8", "9">>

IsDigit(c) == \E i \in 1..Len(DigitBytes) : DigitBytes[i] = c

DigitVal(c) == (CHOOSE i \in 1..Len(DigitBytes) : DigitBytes[i] = c) - 1

\* regexp \s and strings.TrimSpace, on the bytes of the model.
IsSpace(c) == c \in {" ", "\t"}

Drop(s, n) == SubSeq(s, n + 1, Len(s))

\* strings.HasPrefix
HasPrefix(s, prefix) ==
    /\ Len(prefix) <= Len(s)
    /\ \A i \in 1..Len(prefix) : s[i] = prefix[i]

RECURSIVE TrimLeft(_)
TrimLeft(s) == IF s # <<>> /\ IsSpace(Head(s)) THEN TrimLeft(Tail(s)) ELSE s

RECURSIVE TrimRight(_)
TrimRight(s) ==
    IF s # <<>> /\ IsSpace(s[Len(s)]) THEN TrimRight(SubSeq(s, 1, Len(s) - 1)) ELSE s

\* strings.TrimSpace
TrimSpace(s) == TrimRight(TrimLeft(s))

\* The number of leading whitespace bytes of s: what a greedy \s* consumes.
RECURSIVE SpaceRun(_)
SpaceRun(s) == IF s # <<>> /\ IsSpace(Head(s)) THEN 1 + SpaceRun(Tail(s)) ELSE 0

\* The number of leading digits of s: what a greedy \d+ consumes.
RECURSIVE DigitRun(_)
DigitRun(s) == IF s # <<>> /\ IsDigit(Head(s)) THEN 1 + DigitRun(Tail(s)) ELSE 0

NoMatch == [ok |-> FALSE]

\* `\s*(.+)$` applied to s, with at least minSpaces bytes of whitespace: the
\* whitespace is consumed greedily and gives one byte back when nothing else
\* is left for the group.
RestGroup(s, minSpaces) ==
    LET k == SpaceRun(s)
    IN  IF k < Len(s) /\ k >= minSpaces
        THEN [ok |-> TRUE, group |-> Drop(s, k)]
        ELSE IF k = Len(s) /\ k >= minSpaces + 1
        THEN [ok |-> TRUE, group |-> Drop(s, k - 1)]
        ELSE NoMatch

\* ^<keyword>\s+(.+)$
MatchKeyword(keyword, line) ==
    IF HasPrefix(line, keyword) THEN RestGroup(Drop(line, Len(keyword)), 1) ELSE NoMatch

\* ^<keyword>\s+(\d+)$
MatchKeywordDigits(keyword, line) ==
    IF ~HasPrefix(line, keyword)
    THEN NoMatch
    ELSE LET rest == Drop(line, Len(keyword))
             k == SpaceRun(rest)
             digits == Drop(rest, k)
         IN  IF k >= 1 /\ digits # <<>> /\ DigitRun(digits) = Len(digits)
             THEN [ok |-> TRUE, group |-> digits]
             ELSE NoMatch

\* ^#\s*<tag>:\s*(.+)$
MatchComment(tag, line) ==
    IF line = <<>> \/ Head(line) # "#"
    THEN NoMatch
    ELSE LET afterHash == Drop(line, 1 + SpaceRun(Tail(line)))
         IN  IF HasPrefix(afterHash, tag \o <<":">>)
             THEN RestGroup(Drop(afterHash, Len(tag) + 1), 0)
             ELSE NoMatch

kwHost == <<"H", "o", "s", "t">>
\* The keyword of reHostname, spelled as ssh_config(5) spells it.
kwHostNameCamel == <<"H", "o", "s", "t", "N", "a", "m", "e">>

kwHostname == <<"H", "o", "s", "t", "n", "a", "m", "e">>
kwUser == <<"U", "s", "e", "r">>
kwPort == <<"P", "o", "r", "t">>
kwIdentityFile == <<"I", "d", "e", "n", "t", "i", "t", "y", "F", "i", "l", "e">>
kwMenu == <<"M", "e", "n", "u">>
kwIP == <<"I", "P">>
kwGroup == <<"G", "r", "o", "u", "p">>
kwConnectTimeout ==
    <<"C", "o", "n", "n", "e", "c", "t", "T", "i", "m", "e", "o", "u", "t">>
kwServerAliveInterval ==
    <<"S", "e", "r", "v", "e", "r", "A", "l", "i", "v", "e",
      "I", "n", "t", "e", "r", "v", "a", "l">>
kwServerAliveCountMax ==
    <<"S", "e", "r", "v", "e", "r", "A", "l", "i", "v", "e",
      "C", "o", "u", "n", "t", "M", "a", "x">>

\* reMenu: ^#\s*Menu(?:\s+(\d+))?:\s*(.+)$   (number: group 1, text: group 2)
MatchMenu(line) ==
    IF line = <<>> \/ Head(line) # "#"
    THEN NoMatch
    ELSE LET afterHash == Drop(line, 1 + SpaceRun(Tail(line)))
             afterMenu == Drop(afterHash, Len(kwMenu))
             k == SpaceRun(afterMenu)
             d == DigitRun(Drop(afterMenu, k))
             afterNum == Drop(afterMenu, k + d)
         IN  IF ~HasPrefix(afterHash, kwMenu)
             THEN NoMatch
             ELSE IF afterMenu # <<>> /\ Head(afterMenu) = ":"
             THEN LET text == RestGroup(Tail(afterMenu), 0)
                  IN  IF text.ok
                      THEN [ok |-> TRUE, number |-> <<>>, text |-> text.group]
                      ELSE NoMatch
             ELSE IF k >= 1 /\ d >= 1 /\ afterNum # <<>> /\ Head(afterNum) = ":"
             THEN LET text == RestGroup(Tail(afterNum), 0)
                  IN  IF text.ok
                      THEN [ok |-> TRUE,
                            number |-> SubSeq(afterMenu, k + 1, k + d),
                            text |-> text.group]
                      ELSE NoMatch
             ELSE NoMatch

\* The decimal digits of the largest int (64 bits): 9223372036854775807.
MaxIntDigits ==
    <<"9", "2", "2", "3", "3", "7", "2", "0", "3", "6",
      "8", "5", "4", "7", "7", "5", "8", "0", "7">>

RECURSIVE StripZeros(_)
StripZeros(d) == IF Len(d) > 1 /\ Head(d) = "0" THEN StripZeros(Tail(d)) ELSE d

\* a <= b for two digit strings of the same length
RECURSIVE DigitsLeq(_, _)
DigitsLeq(a, b) ==
    IF a = <<>> THEN TRUE
    ELSE IF Head(a) # Head(b) THEN DigitVal(Head(a)) < DigitVal(Head(b))
    ELSE DigitsLeq(Tail(a), Tail(b))

RECURSIVE DecimalValue(_)
DecimalValue(d) ==
    IF d = <<>> THEN 0 ELSE 10 * DecimalValue(SubSeq(d, 1, Len(d) - 1)) + DigitVal(d[Len(d)])

\* strconv.Atoi on a string of digits: the only failure is a value out of
\* the range of int.
Atoi(digits) ==
    LET d == StripZeros(digits)
    IN  IF \/ Len(d) < Len(MaxIntDigits)
           \/ Len(d) = Len(MaxIntDigits) /\ DigitsLeq(d, MaxIntDigits)
        THEN [ok |-> TRUE, value |-> DecimalValue(d)]
        ELSE [ok |-> FALSE, value |-> 0]

(***************************************************************************)
(* Host                                                                    *)
(***************************************************************************)
sRoot == <<"r", "o", "o", "t">>
s22 == <<"2", "2">>

\* The Host literal of readConfigFile: every string empty but User and Port.
InitialCurrent ==
    [ShortName |-> <<>>, LongName |-> <<>>, User |-> sRoot, Port |-> s22,
     IP |-> <<>>, IdentityFile |-> <<>>, DescText |-> <<>>, MenuNumber |-> 0,
     Groups |-> <<>>, ServerAliveInterval |-> 0, ServerAliveCountMax |-> 0,
     ConnectTimeout |-> 0]

\* The Host literal of handleHostLine.
NewHost(hostName) ==
    [ShortName |-> hostName, LongName |-> hostName, User |-> sRoot, Port |-> s22,
     IP |-> <<>>, IdentityFile |-> <<>>, DescText |-> <<>>, MenuNumber |-> 0,
     Groups |-> <<>>, ServerAliveInterval |-> 0, ServerAliveCountMax |-> 0,
     ConnectTimeout |-> 0]

(***************************************************************************)
(* Config parser.  A parse step yields [current, hosts, err].              *)
(***************************************************************************)
Parsed(cur, hs) == [current |-> cur, hosts |-> hs, err |-> FALSE]

\* contains
contains(slice, s) == \E i \in 1..Len(slice) : slice[i] = s

\* Retained, forgetting the description.
RetainedByNameOnly(h) == h.ShortName # <<>>

\* An entry is kept when it has a name and a menu description.
Retained(h) == h.ShortName # <<>> /\ h.DescText # <<>>

\* handleHostLine, renaming the entry in progress and keeping its other fields.
handleHostLineKeepingFields(hostName, cur, hs) ==
    Parsed([cur EXCEPT !.ShortName = hostName, !.LongName = hostName],
           IF Retained(cur) THEN Append(hs, cur) ELSE hs)

handleHostLine(hostName, cur, hs) ==
    Parsed(NewHost(hostName), IF Retained(cur) THEN Append(hs, cur) ELSE hs)

handleMenuLine(m, cur, hs) ==
    IF m.number # <<>>
    THEN LET num == Atoi(m.number)
         IN  IF ~num.ok
             THEN [current |-> cur, hosts |-> hs, err |-> TRUE]
             ELSE Parsed([cur EXCEPT !.MenuNumber = num.value, !.DescText = m.text], hs)
    ELSE Parsed([cur EXCEPT !.MenuNumber = 0, !.DescText = m.text], hs)

\* handleGroupLine, appending the group whether the entry has it or not.
handleGroupLineAppendingAlways(groupValue, cur, hs) ==
    Parsed([cur EXCEPT !.Groups = Append(@, TrimSpace(groupValue))], hs)

handleGroupLine(groupValue, cur, hs) ==
    LET g == TrimSpace(groupValue)
    IN  Parsed(IF contains(cur.Groups, g)
               THEN cur
               ELSE [cur EXCEPT !.Groups = Append(@, g)], hs)

\* A tuning field: set when Atoi succeeds, left alone otherwise.
SetInt(cur, field, digits) ==
    LET n == Atoi(digits)
    IN  IF n.ok THEN [cur EXCEPT ![field] = n.value] ELSE cur

parseLine(line, cur, hs) ==
    IF MatchKeyword(kwHost, line).ok
    THEN handleHostLine(MatchKeyword(kwHost, line).group, cur, hs)
    ELSE IF MatchKeyword(kwHostname, line).ok
    THEN Parsed([cur EXCEPT !.LongName = MatchKeyword(kwHostname, line).group], hs)
    ELSE IF MatchKeyword(kwUser, line).ok
    THEN Parsed([cur EXCEPT !.User = MatchKeyword(kwUser, line).group], hs)
    ELSE IF MatchKeywordDigits(kwPort, line).ok
    THEN Parsed([cur EXCEPT !.Port = MatchKeywordDigits(kwPort, line).group], hs)
    ELSE IF MatchKeyword(kwIdentityFile, line).ok
    THEN Parsed([cur EXCEPT !.IdentityFile = MatchKeyword(kwIdentityFile, line).group], hs)
    ELSE IF MatchMenu(line).ok
    THEN handleMenuLine(MatchMenu(line), cur, hs)
    ELSE IF MatchComment(kwIP, line).ok
    THEN Parsed([cur EXCEPT !.IP = MatchComment(kwIP, line).group], hs)
    ELSE IF MatchComment(kwGroup, line).ok
    THEN handleGroupLine(MatchComment(kwGroup, line).group, cur, hs)
    ELSE IF MatchKeywordDigits(kwConnectTimeout, line).ok
    THEN Parsed(SetInt(cur, "ConnectTimeout",
                       MatchKeywordDigits(kwConnectTimeout, line).group), hs)
    ELSE IF MatchKeywordDigits(kwServerAliveInterval, line).ok
    THEN Parsed(SetInt(cur, "ServerAliveInterval",
                       MatchKeywordDigits(kwServerAliveInterval, line).group), hs)
    ELSE IF MatchKeywordDigits(kwServerAliveCountMax, line).ok
    THEN Parsed(SetInt(cur, "ServerAliveCountMax",
                       MatchKeywordDigits(kwServerAliveCountMax, line).group), hs)
    ELSE Parsed(cur, hs)


(***************************************************************************)
(* Host registry.                                                          *)
(***************************************************************************)
sUngrouped == <<"U", "n", "g", "r", "o", "u", "p", "e", "d">>

\* The first loop of AssignMenuNumbers: the explicit numbers, or exit on the
\* first number seen twice.
RECURSIVE ValidateExplicit(_, _, _)
ValidateExplicit(hs, i, usedNumbers) ==
    IF i > Len(hs)
    THEN [exit |-> FALSE, usedNumbers |-> usedNumbers]
    ELSE IF hs[i].MenuNumber # 0
    THEN IF hs[i].MenuNumber \in usedNumbers
         THEN [exit |-> TRUE, usedNumbers |-> usedNumbers]
         ELSE ValidateExplicit(hs, i + 1, usedNumbers \cup {hs[i].MenuNumber})
    ELSE ValidateExplicit(hs, i + 1, usedNumbers)

\* NextUnused, skipping nothing.
NextUnusedNoSkip(nextAvailable, usedNumbers) == nextAvailable

\* for usedNumbers[nextAvailable] { nextAvailable++ }
RECURSIVE NextUnused(_, _)
NextUnused(nextAvailable, usedNumbers) ==
    IF nextAvailable \in usedNumbers
    THEN NextUnused(nextAvailable + 1, usedNumbers)
    ELSE nextAvailable

\* The second loop of AssignMenuNumbers, leaving the entries as they are.
AssignUnnumberedKeepingZero(hs, i, nextAvailable, usedNumbers) == hs

\* The second loop of AssignMenuNumbers.
RECURSIVE AssignUnnumbered(_, _, _, _)
AssignUnnumbered(hs, i, nextAvailable, usedNumbers) ==
    IF i > Len(hs)
    THEN hs
    ELSE IF hs[i].MenuNumber = 0
    THEN LET n == NextUnused(nextAvailable, usedNumbers)
         IN  AssignUnnumbered([hs EXCEPT ![i].MenuNumber = n], i + 1, n,
                              usedNumbers \cup {n})
    ELSE AssignUnnumbered(hs, i + 1, nextAvailable, usedNumbers)

\* SortByMenuNumber, leaving the list in the order it has.
SortByMenuNumberKeepingOrder(hs) == hs

\* sort.Slice by MenuNumber.  The numbers are pairwise distinct when it is
\* called, so the order it produces does not depend on the algorithm.
RECURSIVE SortByMenuNumber(_)
SortByMenuNumber(hs) ==
    IF hs = <<>>
    THEN <<>>
    ELSE LET rest == SortByMenuNumber(SubSeq(hs, 1, Len(hs) - 1))
             h == hs[Len(hs)]
             k == Cardinality({j \in 1..Len(rest) : ~(h.MenuNumber < rest[j].MenuNumber)})
         IN  SubSeq(rest, 1, k) \o <<h>> \o SubSeq(rest, k + 1, Len(rest))

\* AssignMenuNumbers, comparing an explicit number with that of the entry
\* before it only.
AssignMenuNumbersCheckingNeighbours(hs) ==
    LET explicit == {hs[i].MenuNumber : i \in 1..Len(hs)} \ {0}
    IN  IF \E i \in 2..Len(hs) :
               hs[i].MenuNumber # 0 /\ hs[i].MenuNumber = hs[i - 1].MenuNumber
        THEN [exit |-> TRUE, hosts |-> <<>>]
        ELSE [exit |-> FALSE,
              hosts |-> SortByMenuNumber(AssignUnnumbered(hs, 1, 1, explicit))]

\* AssignMenuNumbers: exit is os.Exit(1), otherwise hosts is the list returned.
AssignMenuNumbers(hs) ==
    LET v == ValidateExplicit(hs, 1, {})
    IN  IF v.exit
        THEN [exit |-> TRUE, hosts |-> <<>>]
        ELSE [exit |-> FALSE,
              hosts |-> SortByMenuNumber(AssignUnnumbered(hs, 1, 1, v.usedNumbers))]

\* groups[g] = append(groups[g], h) on a map, as a function on its keys.
AppendUnder(groups, g, h) ==
    IF g \in DOMAIN groups
    THEN [groups EXCEPT ![g] = Append(@, h)]
    ELSE [k \in DOMAIN groups \cup {g} |-> IF k = g THEN <<h>> ELSE groups[k]]

\* The inner loop of GroupHosts: h under each of its groups from the j-th on.
RECURSIVE AppendUnderEach(_, _, _)
AppendUnderEach(groups, h, j) ==
    IF j > Len(h.Groups)
    THEN groups
    ELSE AppendUnderEach(AppendUnder(groups, h.Groups[j], h), h, j + 1)

\* FileHost, filing a host under the first of its groups only.
FileHostUnderFirstGroup(groups, h) ==
    IF Len(h.Groups) = 0
    THEN AppendUnder(groups, sUngrouped, h)
    ELSE AppendUnder(groups, h.Groups[1], h)

\* The body of the loop of GroupHosts.
FileHost(groups, h) ==
    IF Len(h.Groups) = 0
    THEN AppendUnder(groups, sUngrouped, h)
    ELSE AppendUnderEach(groups, h, 1)

RECURSIVE GroupHostsLoop(_, _, _)
GroupHostsLoop(hs, i, groups) ==
    IF i > Len(hs) THEN groups ELSE GroupHostsLoop(hs, i + 1, FileHost(groups, hs[i]))

EmptyMap == [k \in {} |-> <<>>]

GroupHosts(hs) == GroupHostsLoop(hs, 1, EmptyMap)

\* a < b on strings: byte by byte, a proper prefix first.
RECURSIVE StringLess(_, _)
StringLess(a, b) ==
    IF b = <<>> THEN FALSE
    ELSE IF a = <<>> THEN TRUE
    ELSE IF Head(a) # Head(b) THEN Ord(Head(a)) < Ord(Head(b))
    ELSE StringLess(Tail(a), Tail(b))

\* The comparison of GetAllGroups, without its two tests for "Ungrouped".
GroupLessLexical(a, b) == StringLess(a, b)

\* The comparison function GetAllGroups hands to sort.Slice.
GroupLess(a, b) ==
    IF a = sUngrouped THEN FALSE
    ELSE IF b = sUngrouped THEN TRUE
    ELSE StringLess(a, b)

\* sort.Slice on the keys of a map: the keys are distinct and GroupLess
\* orders them totally, so the result does not depend on the order in which
\* the map was iterated.
RECURSIVE SortGroups(_)
SortGroups(keys) ==
    IF keys = {}
    THEN <<>>
    ELSE LET first == CHOOSE g \in keys : \A other \in keys \ {g} : ~GroupLess(other, g)
         IN  <<first>> \o SortGroups(keys \ {first})

GetAllGroups(hs) ==
    LET groupMap == UNION {{hs[i].Groups[j] : j \in 1..Len(hs[i].Groups)} : i \in 1..Len(hs)}
        hasUngrouped == \E i \in 1..Len(hs) : Len(hs[i].Groups) = 0
    IN  SortGroups(IF hasUngrouped THEN groupMap \cup {sUngrouped} ELSE groupMap)

(***************************************************************************)
(* Interactive selector: the methods of Model, as functions of the model m.*)
(***************************************************************************)
UpperBytes ==
    <<"A", "B", "C", "D", "E", "F", "G", "H", "I", "J", "K", "L", "M",
      "N", "O", "P", "Q", "R", "S", "T", "U", "V", "W", "X", "Y", "Z">>

LowerBytes ==
    <<"a", "b", "c", "d", "e", "f", "g", "h", "i", "j", "k", "l", "m",
      "n", "o", "p", "q", "r", "s", "t", "u", "v", "w", "x", "y", "z">>

\* The one rune outside ASCII that the model types, U+00E9, and the bytes of
\* U+FFFD, which strings.Map writes in place of a byte that is no rune.
runeEAcute == <<"\\xC3", "\\xA9">>
runeError == <<"\\xEF", "\\xBF", "\\xBD">>

IsASCII(c) == c \notin {"\\xA9", "\\xBD", "\\xBF", "\\xC3", "\\xEF"}

LowerByte(c) ==
    IF \E i \in 1..Len(UpperBytes) : UpperBytes[i] = c
    THEN LowerBytes[CHOOSE i \in 1..Len(UpperBytes) : UpperBytes[i] = c]
    ELSE c

\* strings.ToLower: byte by byte on ASCII; a whole rune outside ASCII is
\* kept as it is (those of the model have no upper case), and a byte that
\* is part of no rune becomes U+FFFD.
RECURSIVE ToLower(_)
ToLower(s) ==
    IF s = <<>> THEN <<>>
    ELSE IF IsASCII(Head(s)) THEN <<LowerByte(Head(s))>> \o ToLower(Tail(s))
    ELSE IF HasPrefix(s, runeEAcute) THEN runeEAcute \o ToLower(Drop(s, Len(runeEAcute)))
    ELSE IF HasPrefix(s, runeError) THEN runeError \o ToLower(Drop(s, Len(runeError)))
    ELSE runeError \o ToLower(Tail(s))

\* fmt.Sprintf("%d", n)
RECURSIVE FormatInt(_)
FormatInt(n) ==
    IF n < 0 THEN <<"-">> \o FormatInt(-n)
    ELSE IF n < 10 THEN <<DigitBytes[n + 1]>>
    ELSE FormatInt(n \div 10) \o <<DigitBytes[(n % 10) + 1]>>

\* The tests of the filter loop, on the text without lowering it for the
\* names.
FilterMatchesCaseSensitive(host, filterText) ==
    \/ HasPrefix(FormatInt(host.MenuNumber), filterText)
    \/ HasPrefix(host.ShortName, filterText)
    \/ HasPrefix(host.LongName, filterText)

\* The three tests of the filter loop of updateFilteredHosts.
FilterMatches(host, filterText) ==
    \/ HasPrefix(FormatInt(host.MenuNumber), filterText)
    \/ HasPrefix(ToLower(host.ShortName), ToLower(filterText))
    \/ HasPrefix(ToLower(host.LongName), ToLower(filterText))

\* FilterLoop, starting at the second host of the view.
RECURSIVE FilterLoopFromSecond(_, _, _)
FilterLoopFromSecond(viewHosts, i, filterText) ==
    IF i > Len(viewHosts) THEN <<>>
    ELSE IF i = 1 THEN FilterLoopFromSecond(viewHosts, 2, filterText)
    ELSE IF FilterMatches(viewHosts[i], filterText)
    THEN <<viewHosts[i]>> \o FilterLoopFromSecond(viewHosts, i + 1, filterText)
    ELSE FilterLoopFromSecond(viewHosts, i + 1, filterText)

\* The filter loop: the hosts of viewHosts, from the i-th on, that match.
RECURSIVE FilterLoop(_, _, _)
FilterLoop(viewHosts, i, filterText) ==
    IF i > Len(viewHosts) THEN <<>>
    ELSE IF FilterMatches(viewHosts[i], filterText)
    THEN <<viewHosts[i]>> \o FilterLoop(viewHosts, i + 1, filterText)
    ELSE FilterLoop(viewHosts, i + 1, filterText)

getHostsForGroup(m, groupName) ==
    LET Groupless(h) == Len(h.Groups) = 0
        InGroup(h) == \E j \in 1..Len(h.Groups) : h.Groups[j] = groupName
    IN  IF groupName = sUngrouped
        THEN SelectSeq(m.hosts, Groupless)
        ELSE SelectSeq(m.hosts, InGroup)

\* The first half of updateFilteredHosts: the hosts of the current view.
ViewHosts(m) ==
    IF m.viewIndex = 0
    THEN m.hosts
    ELSE IF m.viewIndex - 1 < Len(m.groups)
    THEN getHostsForGroup(m, m.groups[m.viewIndex])
    ELSE <<>>

updateFilteredHosts(m) ==
    IF m.filterText = <<>>
    THEN [m EXCEPT !.filteredHosts = ViewHosts(m)]
    ELSE [m EXCEPT !.filteredHosts = FilterLoop(ViewHosts(m), 1, m.filterText)]

\* Selected is a pointer: no element when nil, the host it points to otherwise.
SetupUI(hs) ==
    updateFilteredHosts(
        [hosts |-> hs, Selected |-> <<>>, cursor |-> 0, viewIndex |-> 0,
         groups |-> GetAllGroups(hs), filteredHosts |-> hs, filterText |-> <<>>,
         width |-> 0, height |-> 0])

\* handleWindowSize, putting the cursor back on the first host as well.
handleWindowSizeResettingCursor(m, w, h) ==
    [m EXCEPT !.width = w, !.height = h, !.cursor = 0]

handleWindowSize(m, w, h) == [m EXCEPT !.width = w, !.height = h]

\* handleEnterKey, selecting the first host whatever the cursor.
handleEnterKeyFirstHost(m) ==
    IF Len(m.filteredHosts) > 0
    THEN [m |-> [m EXCEPT !.Selected = <<m.filteredHosts[1]>>], quit |-> TRUE]
    ELSE [m |-> m, quit |-> FALSE]

\* handleEnterKey, taking the host at the cursor from hosts.
handleEnterKeyFromAllHosts(m) ==
    IF Len(m.filteredHosts) > 0 /\ m.cursor < Len(m.filteredHosts)
    THEN [m |-> [m EXCEPT !.Selected = <<m.hosts[m.cursor + 1]>>], quit |-> TRUE]
    ELSE [m |-> m, quit |-> FALSE]

\* handleEnterKey: the model, and whether the command returned is tea.Quit.
\* The cursor counts from 0, a sequence from 1.
handleEnterKey(m) ==
    IF Len(m.filteredHosts) = 1
    THEN [m |-> [m EXCEPT !.Selected = <<m.filteredHosts[1]>>], quit |-> TRUE]
    ELSE IF Len(m.filteredHosts) > 0 /\ m.cursor < Len(m.filteredHosts)
    THEN [m |-> [m EXCEPT !.Selected = <<m.filteredHosts[m.cursor + 1]>>], quit |-> TRUE]
    ELSE [m |-> m, quit |-> FALSE]

\* handleBackspace, leaving filteredHosts as it is.
handleBackspaceWithoutRefresh(m) ==
    IF Len(m.filterText) > 0
    THEN [m EXCEPT !.filterText = SubSeq(@, 1, Len(@) - 1), !.cursor = 0]
    ELSE m

handleBackspace(m) ==
    IF Len(m.filterText) > 0
    THEN [updateFilteredHosts([m EXCEPT !.filterText = SubSeq(@, 1, Len(@) - 1)])
             EXCEPT !.cursor = 0]
    ELSE m

\* handleTypedCharacter, leaving the cursor where it is.
handleTypedCharacterKeepingCursor(m, char) ==
    updateFilteredHosts([m EXCEPT !.filterText = @ \o char])

\* handleTypedCharacter, putting the character in place of the filter text.
handleTypedCharacterReplacing(m, char) ==
    [updateFilteredHosts([m EXCEPT !.filterText = char]) EXCEPT !.cursor = 0]

handleTypedCharacter(m, char) ==
    [updateFilteredHosts([m EXCEPT !.filterText = @ \o char]) EXCEPT !.cursor = 0]

moveCursor(m, delta) ==
    LET c == m.cursor + delta
    IN  [m EXCEPT !.cursor = IF c < 0 THEN 0
                             ELSE IF c >= Len(m.filteredHosts)
                             THEN Len(m.filteredHosts) - 1
                             ELSE c]

\* navigateView, keeping the filter text and the cursor of the view it leaves.
navigateViewKeepingFilter(m, delta) ==
    LET totalViews == 1 + Len(m.groups)
        v == m.viewIndex + delta
    IN  updateFilteredHosts(
            [m EXCEPT !.viewIndex = IF v < 0 THEN totalViews - 1
                                    ELSE IF v >= totalViews THEN 0
                                    ELSE v])

\* navigateView, stopping at the first and at the last view.
navigateViewNoWrap(m, delta) ==
    LET totalViews == 1 + Len(m.groups)
        v == m.viewIndex + delta
    IN  updateFilteredHosts(
            [m EXCEPT !.viewIndex = IF v < 0 THEN 0
                                    ELSE IF v >= totalViews THEN totalViews - 1
                                    ELSE v,
                      !.filterText = <<>>,
                      !.cursor = 0])

navigateView(m, delta) ==
    LET totalViews == 1 + Len(m.groups)
        v == m.viewIndex + delta
    IN  updateFilteredHosts(
            [m EXCEPT !.viewIndex = IF v < 0 THEN totalViews - 1
                                    ELSE IF v >= totalViews THEN 0
                                    ELSE v,
                      !.filterText = <<>>,
                      !.cursor = 0])

(***************************************************************************)
(* Colors: a ColorConfig is a function from the six slots to strings.      *)
(***************************************************************************)
Slots == {"Background", "Foreground", "Border", "Selected", "Accent", "Dimmed"}

\* DefaultColors
DefaultColors ==
    [Background |-> <<"#", "1", "e", "1", "e", "2", "e">>,
     Foreground |-> <<"#", "c", "d", "d", "6", "f", "4">>,
     Border     |-> <<"#", "9", "3", "9", "9", "b", "2">>,
     Selected   |-> <<"#", "a", "6", "e", "3", "a", "1">>,
     Accent     |-> <<"#", "8", "9", "d", "c", "e", "b">>,
     Dimmed     |-> <<"#", "5", "8", "5", "b", "7", "0">>]

\* ColorConfig{}
ZeroColors == [s \in Slots |-> <<>>]

\* colorEnvVars: the environment variable that sets each slot.
colorEnvVars ==
    [Background |-> "SSH_MENU_COLOR_BACKGROUND",
     Foreground |-> "SSH_MENU_COLOR_FOREGROUND",
     Border     |-> "SSH_MENU_COLOR_BORDER",
     Selected   |-> "SSH_MENU_COLOR_SELECTED",
     Accent     |-> "SSH_MENU_COLOR_ACCENT",
     Dimmed     |-> "SSH_MENU_COLOR_DIMMED"]

EnvNames == {colorEnvVars[s] : s \in Slots}

\* The tag of the comment that sets each slot: # Color<Slot>: <value>
colorTags ==
    [Background |-> <<"C", "o", "l", "o", "r", "B", "a", "c", "k", "g", "r", "o", "u", "n", "d">>,
     Foreground |-> <<"C", "o", "l", "o", "r", "F", "o", "r", "e", "g", "r", "o", "u", "n", "d">>,
     Border     |-> <<"C", "o", "l", "o", "r", "B", "o", "r", "d", "e", "r">>,
     Selected   |-> <<"C", "o", "l", "o", "r", "S", "e", "l", "e", "c", "t", "e", "d">>,
     Accent     |-> <<"C", "o", "l", "o", "r", "A", "c", "c", "e", "n", "t">>,
     Dimmed     |-> <<"C", "o", "l", "o", "r", "D", "i", "m", "m", "e", "d">>]

\* applyEnvVarColors: os.Getenv gives "" for a variable that is not set.
applyEnvVarColors(config, env) ==
    [s \in Slots |-> IF env[colorEnvVars[s]] # <<>> THEN env[colorEnvVars[s]] ELSE config[s]]

\* mergeConfigColors
mergeConfigColors(config, configColors) ==
    [s \in Slots |->
        IF config[s] = DefaultColors[s] /\ configColors[s] # <<>>
        THEN configColors[s]
        ELSE config[s]]

\* One turn of the loop of readColorsFromConfig: the first expression of the
\* chain that matches the trimmed line sets its slot.
readColorLine(config, rawLine) ==
    LET line == TrimSpace(rawLine)
        set(s) == [config EXCEPT ![s] = TrimSpace(MatchComment(colorTags[s], line).group)]
    IN  IF MatchComment(colorTags["Background"], line).ok THEN set("Background")
        ELSE IF MatchComment(colorTags["Foreground"], line).ok THEN set("Foreground")
        ELSE IF MatchComment(colorTags["Border"], line).ok THEN set("Border")
        ELSE IF MatchComment(colorTags["Selected"], line).ok THEN set("Selected")
        ELSE IF MatchComment(colorTags["Accent"], line).ok THEN set("Accent")
        ELSE IF MatchComment(colorTags["Dimmed"], line).ok THEN set("Dimmed")
        ELSE config

RECURSIVE readColorLines(_, _, _)
readColorLines(lines, i, config) ==
    IF i > Len(lines) THEN config
    ELSE readColorLines(lines, i + 1, readColorLine(config, lines[i]))

\* readColorsFromConfig: a file that cannot be read gives ColorConfig{}.
readColorsFromConfig(in) ==
    IF ~in.readable THEN ZeroColors ELSE readColorLines(in.lines, 1, ZeroColors)

(***************************************************************************)
(* readConfigFile as a function of the file: [readable, lines] gives       *)
(* [hosts, err].                                                           *)
(***************************************************************************)
\* The scanning loop of readConfigFile and its end.
RECURSIVE scanLines(_, _, _, _)
scanLines(lines, i, cur, hs) ==
    IF i > Len(lines)
    THEN [hosts |-> IF Retained(cur) THEN Append(hs, cur) ELSE hs, err |-> FALSE]
    ELSE LET line == TrimSpace(lines[i])
             r == parseLine(line, cur, hs)
         IN  IF line = <<>> THEN scanLines(lines, i + 1, cur, hs)
             ELSE IF r.err THEN [hosts |-> <<>>, err |-> TRUE]
             ELSE scanLines(lines, i + 1, r.current, r.hosts)

\* readConfigFile: os.Open fails on a file that cannot be read.
readConfigFile(f) ==
    IF ~f.readable
    THEN [hosts |-> <<>>, err |-> TRUE]
    ELSE scanLines(f.lines, 1, InitialCurrent, <<>>)

\* file.IsDir() || strings.HasPrefix(file.Name(), ".")
SkippedEntry(e) == e.isDir \/ HasPrefix(e.name, <<".">>)

(***************************************************************************)
(* main: the functions of main.go.                                         *)
(***************************************************************************)
\* The decimal digits of -(the smallest int): 9223372036854775808.
MinIntDigits ==
    <<"9", "2", "2", "3", "3", "7", "2", "0", "3", "6",
      "8", "5", "4", "7", "7", "5", "8", "0", "8">>

\* strconv.Atoi on any string: an optional sign, then digits only, and a
\* value in the range of int.
AtoiSigned(s) ==
    LET signed == s # <<>> /\ Head(s) \in {"+", "-"}
        negative == s # <<>> /\ Head(s) = "-"
        digits == IF signed THEN Tail(s) ELSE s
    IN  IF digits = <<>> \/ DigitRun(digits) # Len(digits)
        THEN [ok |-> FALSE, value |-> 0]
        ELSE IF Atoi(digits).ok
        THEN [ok |-> TRUE,
              value |-> IF negative THEN 0 - Atoi(digits).value ELSE Atoi(digits).value]
        ELSE [ok |-> negative /\ StripZeros(digits) = MinIntDigits, value |-> 0]

\* strings.Fields: the maximal runs of bytes that are not white space.
RECURSIVE Fields(_)
Fields(s) ==
    LET t == TrimLeft(s)
        n == CHOOSE k \in 1..Len(t) :
                /\ \A i \in 1..k : ~IsSpace(t[i])
                /\ k = Len(t) \/ IsSpace(t[k + 1])
    IN  IF t = <<>> THEN <<>> ELSE <<SubSeq(t, 1, n)>> \o Fields(Drop(t, n))

sDashV == <<"-", "v">>

\* connectSSH: the arguments of the ssh command.
connectSSHArgs(h, verbose, sshOpts) ==
    (IF verbose THEN <<sDashV>> ELSE <<>>)
        \o (IF sshOpts # <<>> THEN Fields(sshOpts) ELSE <<>>)
        \o <<h.ShortName>>

\* filterHostsByGroup
RECURSIVE filterHostsByGroup(_, _)
filterHostsByGroup(hs, group) ==
    IF hs = <<>> THEN <<>>
    ELSE LET h == Head(hs)
             keep == IF group = sUngrouped THEN h.Groups = <<>> ELSE contains(h.Groups, group)
         IN  (IF keep THEN <<h>> ELSE <<>>) \o filterHostsByGroup(Tail(hs), group)

\* The loops of handleDirectHostSelection: the index of the first host with
\* the menu number, or named so; 0 when there is none (selected == nil).
RECURSIVE findByMenuNumber(_, _, _)
findByMenuNumber(hs, num, i) ==
    IF i > Len(hs) THEN 0
    ELSE IF hs[i].MenuNumber = num THEN i
    ELSE findByMenuNumber(hs, num, i + 1)

RECURSIVE findByName(_, _, _)
findByName(hs, input, i) ==
    IF i > Len(hs) THEN 0
    ELSE IF hs[i].ShortName = input \/ hs[i].LongName = input \/ hs[i].IP = input THEN i
    ELSE findByName(hs, input, i + 1)

\* handleDirectHostSelection up to connectSSH, searching by name only.
directSelectionByNameOnly(input, hs) == findByName(hs, input, 1)

\* handleDirectHostSelection up to connectSSH: the index of the host selected.
directSelection(input, hs) ==
    IF AtoiSigned(input).ok
    THEN findByMenuNumber(hs, AtoiSigned(input).value, 1)
    ELSE findByName(hs, input, 1)

\* countHosts, looking at the first group of each host only.
RECURSIVE countHostsByFirstGroup(_, _)
countHostsByFirstGroup(hs, g) ==
    IF hs = <<>> THEN 0
    ELSE (IF (IF g = sUngrouped
              THEN Head(hs).Groups = <<>>
              ELSE Head(hs).Groups # <<>> /\ Head(hs).Groups[1] = g)
          THEN 1 ELSE 0) + countHostsByFirstGroup(Tail(hs), g)

\* The count listAvailableGroups prints for group g.
RECURSIVE countHosts(_, _)
countHosts(hs, g) ==
    IF hs = <<>> THEN 0
    ELSE (IF (IF g = sUngrouped THEN Head(hs).Groups = <<>> ELSE contains(Head(hs).Groups, g))
          THEN 1 ELSE 0) + countHosts(Tail(hs), g)

\* listAvailableGroups: the lines printed.
listAvailableGroups(hs) ==
    LET groups == GetAllGroups(hs)
    IN  IF groups = <<>>
        THEN <<[text |-> "No groups found in SSH config."]>>
        ELSE <<[text |-> "Available groups:"]>>
                 \o [i \in 1..Len(groups) |->
                        [group |-> groups[i], count |-> countHosts(hs, groups[i])]]

(***************************************************************************)
(* State.                                                                  *)
(*   readConfigFile: file (the lines the scanner yields), scanPos (the     *)
(*   next line), current, hosts, ret (what the function returned).         *)
(*   main and the registry: parsedHosts (what ReadConfigFiles returned),    *)
(*   mainHosts (main's hosts variable), mainPc (where main stands) and     *)
(*   regCall (the last registry function called: its argument and result). *)
(*   The selector: m (the Model), uiPc (whether the program of RunUI is    *)
(*   running or has quit) and msg (the message Update handled last).       *)
(*   ApplyColorConfig: colorIn (the environment and the configuration file  *)
(*   it reads), colorPc (where it stands), colorConfig (its local config)   *)
(*   and currentColorConfig (the package variable it stores into).          *)
(*   ReadConfigFiles: fs (the primary file and the config.d directory) and  *)
(*   rcf (its locals: where it stands, allHosts, the index in the listing,  *)
(*   the warnings printed, what it returned).                               *)
(*   The process: cli (flags and positional arguments), cfg (what           *)
(*   ReadConfigFiles returns to main), ssh (the ssh commands run, each the  *)
(*   list of its arguments) and printed (what main printed).               *)
(***************************************************************************)
VARIABLES file, scanPos, current, hosts, ret,
          parsedHosts, mainHosts, mainPc, regCall,
          m, uiPc, msg,
          colorIn, colorPc, colorConfig, currentColorConfig,
          fs, rcf,
          cli, cfg, ssh, printed

parserVars == <<file, scanPos, current, hosts, ret>>

registryVars == <<parsedHosts, mainHosts, mainPc, regCall>>

uiVars == <<m, uiPc, msg>>

colorVars == <<colorIn, colorPc, colorConfig, currentColorConfig>>

filesVars == <<fs, rcf>>

mainVars == <<cli, cfg, ssh, printed>>

vars ==
    <<file, scanPos, current, hosts, ret, parsedHosts, mainHosts, mainPc, regCall,
      m, uiPc, msg, colorIn, colorPc, colorConfig, currentColorConfig, fs, rcf,
      cli, cfg, ssh, printed>>

NotReturned == [returned |-> FALSE]

Returned(hs, e) == [returned |-> TRUE, hosts |-> hs, err |-> e]

\* readConfigFile up to its scanning loop.
ReadConfigFileStart(lines) ==
    /\ file = lines
    /\ scanPos = 1
    /\ current = InitialCurrent
    /\ hosts = <<>>
    /\ ret = NotReturned

\* One turn of the scanning loop: an empty line is skipped, a line that
\* fails to parse ends the function with (nil, err).
ScanLine ==
    /\ ~ret.returned
    /\ scanPos <= Len(file)
    /\ LET line == TrimSpace(file[scanPos])
           r == parseLine(line, current, hosts)
       IN  IF line = <<>>
           THEN /\ scanPos' = scanPos + 1
                /\ UNCHANGED <<current, hosts, ret>>
           ELSE IF r.err
           THEN /\ ret' = Returned(<<>>, TRUE)
                /\ UNCHANGED <<scanPos, current, hosts>>
           ELSE /\ scanPos' = scanPos + 1
                /\ current' = r.current
                /\ hosts' = r.hosts
                /\ UNCHANGED ret
    /\ UNCHANGED <<file, registryVars, uiVars, colorVars, filesVars, mainVars>>

\* ReturnHosts, forgetting the entry in progress at the end of the file.
ReturnHostsDroppingLast ==
    /\ ~ret.returned
    /\ scanPos > Len(file)
    /\ ret' = Returned(hosts, FALSE)
    /\ UNCHANGED <<file, scanPos, current, hosts, registryVars, uiVars, colorVars, filesVars, mainVars>>

\* The end of the file: the last entry is appended if it is retained.
ReturnHosts ==
    /\ ~ret.returned
    /\ scanPos > Len(file)
    /\ hosts' = IF Retained(current) THEN Append(hosts, current) ELSE hosts
    /\ ret' = Returned(hosts', FALSE)
    /\ UNCHANGED <<file, scanPos, current, registryVars, uiVars, colorVars, filesVars, mainVars>>

(***************************************************************************)
(* main and the registry functions.                                        *)
(***************************************************************************)
NoCall == [fn |-> "none"]

Call(f, argument, result) == [fn |-> f, arg |-> argument, out |-> result]

\* The parser is not running.
ParserIdle ==
    /\ file = <<>>
    /\ scanPos = 1
    /\ current = InitialCurrent
    /\ hosts = <<>>
    /\ ret = NotReturned

\* The registry is not running.
RegistryIdle ==
    /\ parsedHosts = <<>>
    /\ mainHosts = <<>>
    /\ mainPc = "idle"
    /\ regCall = NoCall

\* main holds the hosts ReadConfigFiles returned.
MainParsed(hs) ==
    /\ parsedHosts = hs
    /\ mainHosts = hs
    /\ mainPc = "parsed"
    /\ regCall = NoCall

\* hosts = internal.AssignMenuNumbers(hosts)
CallAssignMenuNumbers ==
    /\ mainPc = "parsed"
    /\ LET r == AssignMenuNumbers(mainHosts)
       IN  /\ regCall' = Call("AssignMenuNumbers", mainHosts, r)
           /\ mainPc' = IF r.exit THEN "exit1" ELSE "numbered"
           /\ mainHosts' = IF r.exit THEN mainHosts ELSE r.hosts
    /\ UNCHANGED <<parsedHosts, parserVars, uiVars, colorVars, filesVars, mainVars>>

\* GroupHosts(hosts)
CallGroupHosts ==
    /\ mainPc \in {"parsed", "numbered"}
    /\ regCall' = Call("GroupHosts", mainHosts, GroupHosts(mainHosts))
    /\ UNCHANGED <<parsedHosts, mainHosts, mainPc, parserVars, uiVars, colorVars, filesVars, mainVars>>

\* GetAllGroups(hosts)
CallGetAllGroups ==
    /\ mainPc \in {"parsed", "numbered"}
    /\ regCall' = Call("GetAllGroups", mainHosts, GetAllGroups(mainHosts))
    /\ UNCHANGED <<parsedHosts, mainHosts, mainPc, parserVars, uiVars, colorVars, filesVars, mainVars>>

(***************************************************************************)
(* The selector: RunUI hands every message to Update until a handler       *)
(* returns tea.Quit.                                                       *)
(***************************************************************************)
NoMsg == [type |-> "none"]

KeyMsg(t) == [type |-> t]

\* The selector is not running.
UIIdle ==
    /\ m = SetupUI(<<>>)
    /\ uiPc = "idle"
    /\ msg = NoMsg

\* startTerminalUI: SetupUI, then RunUI.
StartTerminalUI(hs) ==
    /\ m = SetupUI(hs)
    /\ uiPc = "running"
    /\ msg = NoMsg

\* Update, tea.WindowSizeMsg
WindowSize(w, h) ==
    /\ uiPc = "running"
    /\ msg' = [type |-> "WindowSizeMsg", Width |-> w, Height |-> h]
    /\ m' = handleWindowSize(m, w, h)
    /\ UNCHANGED <<uiPc, parserVars, registryVars, colorVars, filesVars, mainVars>>

\* KeyEscape, ignored while a filter is typed.
KeyEscapeUnlessFiltering ==
    /\ uiPc = "running"
    /\ m.filterText = <<>>
    /\ msg' = KeyMsg("KeyEscape")
    /\ uiPc' = "quit"
    /\ UNCHANGED <<m, parserVars, registryVars, colorVars, filesVars, mainVars>>

\* handleKeyPress, tea.KeyEscape
KeyEscape ==
    /\ uiPc = "running"
    /\ msg' = KeyMsg("KeyEscape")
    /\ uiPc' = "quit"
    /\ UNCHANGED <<m, parserVars, registryVars, colorVars, filesVars, mainVars>>

\* handleKeyPress, tea.KeyEnter
KeyEnter ==
    /\ uiPc = "running"
    /\ msg' = KeyMsg("KeyEnter")
    /\ m' = handleEnterKey(m).m
    /\ uiPc' = IF handleEnterKey(m).quit THEN "quit" ELSE "running"
    /\ UNCHANGED <<parserVars, registryVars, colorVars, filesVars, mainVars>>

\* A key that changes the model and returns no command.
KeyHandled(type, after) ==
    /\ uiPc = "running"
    /\ msg' = KeyMsg(type)
    /\ m' = after
    /\ UNCHANGED <<uiPc, parserVars, registryVars, colorVars, filesVars, mainVars>>

KeyUp == KeyHandled("KeyUp", moveCursor(m, -1))

KeyDown == KeyHandled("KeyDown", moveCursor(m, 1))

KeyLeft == KeyHandled("KeyLeft", navigateView(m, -1))

KeyRight == KeyHandled("KeyRight", navigateView(m, 1))

KeyTab == KeyHandled("KeyTab", navigateView(m, 1))

KeyBackspace == KeyHandled("KeyBackspace", handleBackspace(m))

\* handleKeyPress, tea.KeyRunes: char is msg.String().
KeyRunes(char) ==
    /\ Len(m.filterText) + Len(char) <= MaxFilterLen
    /\ uiPc = "running"
    /\ msg' = [type |-> "KeyRunes", String |-> char]
    /\ m' = handleTypedCharacter(m, char)
    /\ UNCHANGED <<uiPc, parserVars, registryVars, colorVars, filesVars, mainVars>>

\* A key of any other type, and a message of any other type: nothing changes.
OtherMsg ==
    /\ uiPc = "running"
    /\ msg' = [type |-> "other"]
    /\ UNCHANGED <<m, uiPc, parserVars, registryVars, colorVars, filesVars, mainVars>>

(***************************************************************************)
(* ApplyColorConfig, in three steps.                                       *)
(***************************************************************************)
\* ApplyColorConfig has not been called.
ColorsIdle ==
    /\ colorIn = [env |-> [n \in EnvNames |-> <<>>], configPath |-> <<>>,
                  readable |-> FALSE, lines |-> <<>>]
    /\ colorPc = "idle"
    /\ colorConfig = ZeroColors
    /\ currentColorConfig = ZeroColors

\* ReadConfigFiles has not been called.
FilesIdle ==
    /\ fs = [primary |-> [readable |-> FALSE, lines |-> <<>>], stat |-> "absent",
             readDirFails |-> FALSE, entries |-> <<>>]
    /\ rcf = [pc |-> "idle", allHosts |-> <<>>, next |-> 1, warnings |-> <<>>,
              ret |-> NotReturned]

\* The process is not modelled: no command line, nothing run, nothing printed.
MainIdle ==
    /\ cli = [home |-> FALSE, l |-> FALSE, g |-> <<>>, V |-> FALSE, s |-> <<>>,
              args |-> <<>>]
    /\ cfg = [err |-> FALSE, hosts |-> <<>>]
    /\ ssh = <<>>
    /\ printed = <<>>

\* InitStyles(configPath) calls ApplyColorConfig(configPath).
ApplyColorConfigStart(in) ==
    /\ colorIn = in
    /\ colorPc = "start"
    /\ colorConfig = ZeroColors
    /\ currentColorConfig = ZeroColors

\* config := DefaultColors(); applyEnvVarColors(&config)
ApplyEnvVarColors ==
    /\ colorPc = "start"
    /\ colorConfig' = applyEnvVarColors(DefaultColors, colorIn.env)
    /\ colorPc' = "env"
    /\ UNCHANGED <<colorIn, currentColorConfig, parserVars, registryVars, uiVars,
                   filesVars, mainVars>>

\* if configPath != "" { mergeConfigColors(&config, readColorsFromConfig(configPath)) }
MergeConfigColors ==
    /\ colorPc = "env"
    /\ colorConfig' = IF colorIn.configPath # <<>>
                      THEN mergeConfigColors(colorConfig, readColorsFromConfig(colorIn))
                      ELSE colorConfig
    /\ colorPc' = "merged"
    /\ UNCHANGED <<colorIn, currentColorConfig, parserVars, registryVars, uiVars,
                   filesVars, mainVars>>

\* currentColorConfig = config
StoreColorConfig ==
    /\ colorPc = "merged"
    /\ currentColorConfig' = colorConfig
    /\ colorPc' = "stored"
    /\ UNCHANGED <<colorIn, colorConfig, parserVars, registryVars, uiVars,
                   filesVars, mainVars>>

(***************************************************************************)
(* ReadConfigFiles: the primary file, the stat of config.d, its listing,   *)
(* one turn of the loop per entry, the return.                             *)
(***************************************************************************)
ReadConfigFilesStart(files) ==
    /\ fs = files
    /\ rcf = [pc |-> "start", allHosts |-> <<>>, next |-> 1, warnings |-> <<>>,
              ret |-> NotReturned]

\* mainHosts, err := readConfigFile(configPath)
ReadMainFile ==
    /\ rcf.pc = "start"
    /\ LET r == readConfigFile(fs.primary)
       IN  rcf' = IF r.err
                  THEN [rcf EXCEPT !.pc = "done", !.ret = Returned(<<>>, TRUE)]
                  ELSE [rcf EXCEPT !.pc = "stat", !.allHosts = r.hosts]
    /\ UNCHANGED <<fs, parserVars, registryVars, uiVars, colorVars, mainVars>>

\* os.Stat(configDirPath): no config.d, or not a directory, gives the hosts
\* of the primary file; any other error is returned.
StatConfigDir ==
    /\ rcf.pc = "stat"
    /\ rcf' = CASE fs.stat \in {"absent", "notdir"} ->
                     [rcf EXCEPT !.pc = "done", !.ret = Returned(rcf.allHosts, FALSE)]
                [] fs.stat = "error" ->
                     [rcf EXCEPT !.pc = "done", !.ret = Returned(<<>>, TRUE)]
                [] fs.stat = "dir" -> [rcf EXCEPT !.pc = "readdir"]
    /\ UNCHANGED <<fs, parserVars, registryVars, uiVars, colorVars, mainVars>>

\* files, err := os.ReadDir(configDirPath)
ReadConfigDir ==
    /\ rcf.pc = "readdir"
    /\ rcf' = IF fs.readDirFails
              THEN [rcf EXCEPT !.pc = "done", !.ret = Returned(<<>>, TRUE)]
              ELSE [rcf EXCEPT !.pc = "loop", !.next = 1]
    /\ UNCHANGED <<fs, parserVars, registryVars, uiVars, colorVars, mainVars>>

\* One turn of the loop, returning the error of a file that fails.
ReadNextFileOrFail ==
    /\ rcf.pc = "loop"
    /\ rcf.next <= Len(fs.entries)
    /\ LET e == fs.entries[rcf.next]
           r == readConfigFile(e)
       IN  rcf' = IF SkippedEntry(e)
                  THEN [rcf EXCEPT !.next = @ + 1]
                  ELSE IF r.err
                  THEN [rcf EXCEPT !.pc = "done", !.ret = Returned(<<>>, TRUE)]
                  ELSE [rcf EXCEPT !.next = @ + 1, !.allHosts = @ \o r.hosts]
    /\ UNCHANGED <<fs, parserVars, registryVars, uiVars, colorVars, mainVars>>

\* One turn of the loop over files: directories and hidden files are
\* skipped, a file that fails is warned about and skipped.
ReadNextFile ==
    /\ rcf.pc = "loop"
    /\ rcf.next <= Len(fs.entries)
    /\ LET e == fs.entries[rcf.next]
           r == readConfigFile(e)
       IN  rcf' = IF SkippedEntry(e)
                  THEN [rcf EXCEPT !.next = @ + 1]
                  ELSE IF r.err
                  THEN [rcf EXCEPT !.next = @ + 1, !.warnings = Append(@, e.name)]
                  ELSE [rcf EXCEPT !.next = @ + 1, !.allHosts = @ \o r.hosts]
    /\ UNCHANGED <<fs, parserVars, registryVars, uiVars, colorVars, mainVars>>

\* return allHosts, nil
ReturnAllHosts ==
    /\ rcf.pc = "loop"
    /\ rcf.next > Len(fs.entries)
    /\ rcf' = [rcf EXCEPT !.pc = "done", !.ret = Returned(rcf.allHosts, FALSE)]
    /\ UNCHANGED <<fs, parserVars, registryVars, uiVars, colorVars, mainVars>>

(***************************************************************************)
(* main, from its first line to the exit of the process.  mainPc is        *)
(* "exit0" or "exit1" once the process has ended with that status.         *)
(***************************************************************************)
MainStart(commandLine, config) ==
    /\ cli = commandLine
    /\ cfg = config
    /\ ssh = <<>>
    /\ printed = <<>>
    /\ parsedHosts = <<>>
    /\ mainHosts = <<>>
    /\ mainPc = "start"
    /\ regCall = NoCall

\* The home directory, ReadConfigFiles and the test for no host at all.
MainReadConfig ==
    /\ mainPc = "start"
    /\ IF ~cli.home
       THEN /\ printed' = Append(printed, [text |-> "Unable to determine home directory."])
            /\ mainPc' = "exit1"
            /\ UNCHANGED <<parsedHosts, mainHosts>>
       ELSE IF cfg.err
       THEN /\ printed' = Append(printed, [text |-> "Error reading SSH config"])
            /\ mainPc' = "exit1"
            /\ UNCHANGED <<parsedHosts, mainHosts>>
       ELSE IF Len(cfg.hosts) = 0
       THEN /\ printed' = Append(printed, [text |-> "No menu hosts found in SSH config."])
            /\ mainPc' = "exit1"
            /\ UNCHANGED <<parsedHosts, mainHosts>>
       ELSE /\ parsedHosts' = cfg.hosts
            /\ mainHosts' = cfg.hosts
            /\ mainPc' = "parsed"
            /\ UNCHANGED printed
    /\ UNCHANGED <<regCall, cli, cfg, ssh, parserVars, uiVars, colorVars, filesVars>>

\* if listGroups { listAvailableGroups(hosts); return }
MainListGroups ==
    /\ mainPc = "numbered"
    /\ cli.l
    /\ printed' = printed \o listAvailableGroups(mainHosts)
    /\ mainPc' = "exit0"
    /\ UNCHANGED <<parsedHosts, mainHosts, regCall, cli, cfg, ssh, parserVars, uiVars,
                   colorVars, filesVars>>

\* MainFilterGroup, handing an empty list on.
MainFilterGroupKeepingEmpty ==
    /\ mainPc = "numbered"
    /\ ~cli.l
    /\ mainHosts' = IF cli.g # <<>> THEN filterHostsByGroup(mainHosts, cli.g) ELSE mainHosts
    /\ mainPc' = "filtered"
    /\ UNCHANGED <<printed, parsedHosts, regCall, cli, cfg, ssh, parserVars, uiVars,
                   colorVars, filesVars>>

\* if group != "" { hosts = filterHostsByGroup(hosts, group); no host: exit 1 }
MainFilterGroup ==
    /\ mainPc = "numbered"
    /\ ~cli.l
    /\ LET filtered == IF cli.g # <<>> THEN filterHostsByGroup(mainHosts, cli.g) ELSE mainHosts
       IN  IF Len(filtered) = 0
           THEN /\ printed' = Append(printed, [text |-> "No hosts found in group", group |-> cli.g])
                /\ mainPc' = "exit1"
                /\ mainHosts' = filtered
           ELSE /\ mainHosts' = filtered
                /\ mainPc' = "filtered"
                /\ UNCHANGED printed
    /\ UNCHANGED <<parsedHosts, regCall, cli, cfg, ssh, parserVars, uiVars, colorVars,
                   filesVars>>

\* if len(args) > 0 { handleDirectHostSelection(args[0], ...); return }, up to
\* the start of the ssh command.
MainDirectSelection ==
    /\ mainPc = "filtered"
    /\ Len(cli.args) > 0
    /\ LET selected == directSelection(cli.args[1], mainHosts)
       IN  IF selected = 0
           THEN /\ printed' = Append(printed,
                                     [text |-> IF AtoiSigned(cli.args[1]).ok
                                               THEN "Invalid selection."
                                               ELSE "Host not found."])
                /\ mainPc' = "exit1"
                /\ UNCHANGED ssh
           ELSE /\ ssh' = Append(ssh, connectSSHArgs(mainHosts[selected], cli.V, cli.s))
                /\ mainPc' = "ssh"
                /\ UNCHANGED printed
    /\ UNCHANGED <<parsedHosts, mainHosts, regCall, cli, cfg, parserVars, uiVars, colorVars,
                   filesVars>>

\* startTerminalUI: SetupUI, and RunUI starts the program.
MainStartTerminalUI ==
    /\ mainPc = "filtered"
    /\ Len(cli.args) = 0
    /\ m' = SetupUI(mainHosts)
    /\ uiPc' = "running"
    /\ mainPc' = "ui"
    /\ UNCHANGED <<msg, parsedHosts, mainHosts, regCall, mainVars, parserVars, colorVars,
                   filesVars>>

\* p.Run() returns an error: RunUI returns it and startTerminalUI exits.
RunUIFails ==
    /\ mainPc = "ui"
    /\ uiPc = "running"
    /\ uiPc' = "failed"
    /\ printed' = Append(printed, [text |-> "Error running UI"])
    /\ mainPc' = "exit1"
    /\ UNCHANGED <<m, msg, parsedHosts, mainHosts, regCall, cli, cfg, ssh, parserVars,
                   colorVars, filesVars>>

\* MainAfterUI, connecting to the host under the cursor whatever was selected.
MainAfterUIConnectingAlways ==
    /\ mainPc = "ui"
    /\ uiPc = "quit"
    /\ IF m.filteredHosts # <<>> /\ m.cursor \in 0..(Len(m.filteredHosts) - 1)
       THEN /\ ssh' = Append(ssh, connectSSHArgs(m.filteredHosts[m.cursor + 1], cli.V, cli.s))
            /\ mainPc' = "ssh"
       ELSE /\ mainPc' = "exit0"
            /\ UNCHANGED ssh
    /\ UNCHANGED <<printed, parsedHosts, mainHosts, regCall, cli, cfg, uiVars, parserVars,
                   colorVars, filesVars>>

\* startTerminalUI after RunUI returned nil: if ui.Selected != nil, connectSSH.
MainAfterUI ==
    /\ mainPc = "ui"
    /\ uiPc = "quit"
    /\ IF m.Selected # <<>>
       THEN /\ ssh' = Append(ssh, connectSSHArgs(m.Selected[1], cli.V, cli.s))
            /\ mainPc' = "ssh"
       ELSE /\ mainPc' = "exit0"
            /\ UNCHANGED ssh
    /\ UNCHANGED <<printed, parsedHosts, mainHosts, regCall, cli, cfg, uiVars, parserVars,
                   colorVars, filesVars>>

\* cmd.Run() returns: nil when ssh ran and exited with status 0, an error
\* otherwise, and main exits with status 1 on an error.
SSHReturns(ok) ==
    /\ mainPc = "ssh"
    /\ mainPc' = IF ok THEN "exit0" ELSE "exit1"
    /\ printed' = IF ok THEN printed ELSE Append(printed, [text |-> "Error executing ssh"])
    /\ UNCHANGED <<parsedHosts, mainHosts, regCall, cli, cfg, ssh, uiVars, parserVars,
                   colorVars, filesVars>>

(***************************************************************************)
(* The configuration files of the parser's specification.                  *)
(***************************************************************************)
lnHostA == <<"H", "o", "s", "t", " ", "a">>
lnHostWildcard == <<"H", "o", "s", "t", " ", " ", "*">>
lnMenuX == <<" ", " ", "#", " ", "M", "e", "n", "u", ":", " ", "x">>
lnMenu2Y == <<"\t", "#", "M", "e", "n", "u", " ", "2", ":", "y">>
lnMenuOutOfRange ==
    <<"#", " ", "M", "e", "n", "u", " ",
      "9", "9", "9", "9", "9", "9", "9", "9", "9", "9",
      "9", "9", "9", "9", "9", "9", "9", "9", "9", "9", ":", " ", "z">>
lnGroupP == <<" ", "#", " ", "G", "r", "o", "u", "p", ":", " ", "P", " ">>
lnBlank == <<" ", "\t">>
lnMenuAbc == <<"#", " ", "M", "e", "n", "u", " ", "a", "b", "c", ":", " ", "x">>
lnConnectTimeout5s ==
    <<"C", "o", "n", "n", "e", "c", "t", "T", "i", "m", "e", "o", "u", "t", " ", "5", "s">>

BlockLines ==
    {lnHostA, lnHostWildcard, lnMenuX, lnMenu2Y, lnMenuOutOfRange, lnGroupP, lnBlank,
     lnMenuAbc, lnConnectTimeout5s}

InitParser ==
    /\ \E k \in 0..MaxLines : \E lines \in [1..k -> BlockLines] : ReadConfigFileStart(lines)
    /\ RegistryIdle
    /\ UIIdle
    /\ ColorsIdle
    /\ FilesIdle
    /\ MainIdle

NextParser == ScanLine \/ ReturnHosts

SpecParser == InitParser /\ [][NextParser]_vars

(***************************************************************************)
(* The host lists of the registry's specification: what a parse can yield. *)
(***************************************************************************)
sProd == <<"P", "r", "o", "d">>
sWeb == <<"w", "e", "b">>
sX == <<"x">>

\* The i-th host is named a, b, c, ...
RegName(i) == <<ByteOrder[Ord("a") + i - 1]>>

MenuChoices == {0, 1, 3}

GroupChoices == {<<>>, <<sProd>>, <<sWeb, sProd>>, <<sUngrouped>>}

ParsedHost(name, number, groups) ==
    [NewHost(name) EXCEPT !.DescText = sX, !.MenuNumber = number, !.Groups = groups]

RegistryInput(n, numbers, groups) ==
    [i \in 1..n |-> ParsedHost(RegName(i), numbers[i], groups[i])]

InitRegistry ==
    /\ \E n \in 1..MaxHosts :
          \E numbers \in [1..n -> MenuChoices], groups \in [1..n -> GroupChoices] :
             MainParsed(RegistryInput(n, numbers, groups))
    /\ ParserIdle
    /\ UIIdle
    /\ ColorsIdle
    /\ FilesIdle
    /\ MainIdle

NextRegistry == CallAssignMenuNumbers \/ CallGroupHosts \/ CallGetAllGroups

SpecRegistry == InitRegistry /\ [][NextRegistry]_vars

(***************************************************************************)
(* The selector's specification: the host lists are numbered by            *)
(* AssignMenuNumbers, the keys typed and the terminal sizes are few.       *)
(***************************************************************************)
UIHost(short, long, number, groups) ==
    [ParsedHost(short, number, groups) EXCEPT !.LongName = long]

UIHostPool ==
    {UIHost(<<"A", "b">>, <<"A", "b">>, 2, <<>>),
     UIHost(<<"a">>, <<"1", "a">>, 11, <<sProd>>),
     UIHost(<<"b", "1">>, <<"A", "a">>, 0, <<sWeb, sProd>>),
     UIHost(<<"B">>, <<"B">>, 0, <<sUngrouped>>)}

TypedStrings == {<<"1">>, <<"a">>, <<"A">>, runeEAcute}

TerminalSizes == {<<80, 24>>}

InitUI ==
    /\ \E n \in 1..MaxUIHosts :
          \E hs \in [1..n -> UIHostPool] :
             /\ \A i, j \in 1..n : i # j => hs[i] # hs[j]
             /\ ~AssignMenuNumbers(hs).exit
             /\ StartTerminalUI(AssignMenuNumbers(hs).hosts)
    /\ ParserIdle
    /\ RegistryIdle
    /\ ColorsIdle
    /\ FilesIdle
    /\ MainIdle

NextUI ==
    \/ \E size \in TerminalSizes : WindowSize(size[1], size[2])
    \/ KeyEscape
    \/ KeyEnter
    \/ KeyUp
    \/ KeyDown
    \/ KeyLeft
    \/ KeyRight
    \/ KeyBackspace
    \/ \E char \in TypedStrings : KeyRunes(char)
    \/ KeyTab
    \/ OtherMsg

SpecUI == InitUI /\ [][NextUI]_vars


(***************************************************************************)
(* The specification of ApplyColorConfig: each variable of the environment *)
(* is unset, set to its slot's default or set to another color, and the    *)
(* configuration file, when there is one to read, holds a few lines.       *)
(***************************************************************************)
cRed == <<"r", "e", "d">>

sConfigPath == <<"c", "o", "n", "f", "i", "g">>

lnColorBackground ==
    <<"#", " ", "C", "o", "l", "o", "r", "B", "a", "c", "k", "g", "r", "o", "u", "n", "d",
      ":", " ", " ", "b", "l", "u", "e", " ">>
lnColorDimmed ==
    <<" ", "#", "C", "o", "l", "o", "r", "D", "i", "m", "m", "e", "d", ":", "r", "e", "d">>

ColorLines == {lnColorBackground, lnColorDimmed, lnHostA}

\* The environment: each slot's variable is unset, holds the slot's default
\* or holds another color.
EnvOf(choice) ==
    [n \in EnvNames |->
        LET s == CHOOSE t \in Slots : colorEnvVars[t] = n
        IN  CASE choice[s] = "unset" -> <<>>
              [] choice[s] = "default" -> DefaultColors[s]
              [] choice[s] = "other" -> cRed]

InitColors ==
    /\ \E choice \in [Slots -> {"unset", "default", "other"}],
          path \in {<<>>, sConfigPath}, r \in BOOLEAN :
          \E k \in 0..MaxColorLines : \E lines \in [1..k -> ColorLines] :
             /\ ~r => lines = <<>>
             /\ ApplyColorConfigStart([env |-> EnvOf(choice), configPath |-> path,
                                       readable |-> r, lines |-> lines])
    /\ ParserIdle
    /\ RegistryIdle
    /\ UIIdle
    /\ FilesIdle
    /\ MainIdle

NextColors == ApplyEnvVarColors \/ MergeConfigColors \/ StoreColorConfig

SpecColors == InitColors /\ [][NextColors]_vars

(***************************************************************************)
(* The specification of ReadConfigFiles: a primary file and a config.d     *)
(* whose listing, in name order, holds a few entries.                      *)
(***************************************************************************)
lnHostB == <<"H", "o", "s", "t", "\t", "b">>
lnHostD == <<"H", "o", "s", "t", " ", "d">>

\* Files: one host, one numbered host, a host and then a menu number that
\* does not parse, no line at all.
cfA == <<lnHostA, lnMenuX>>
cfB == <<lnHostB, lnMenu2Y>>
cfBad == <<lnHostD, lnMenuX, lnHostB, lnMenuOutOfRange>>
cfEmpty == <<>>

FileChoices ==
    {[readable |-> FALSE, lines |-> <<>>]}
        \cup {[readable |-> TRUE, lines |-> f] : f \in {cfA, cfB, cfBad, cfEmpty}}

\* The names of the listing, in the order os.ReadDir gives them.
DirNames == << <<"-", "a">>, <<".", "b">>, <<"c">>, <<"d">> >>

DirEntry(name, f, dir) ==
    [name |-> name, isDir |-> dir, readable |-> f.readable, lines |-> f.lines]

\* The listings: for every set of at most MaxDirEntries names, each name a
\* directory or a file.
RECURSIVE Listing(_, _, _, _)
Listing(present, files, dirs, i) ==
    IF i > Len(DirNames) THEN <<>>
    ELSE (IF i \in present THEN <<DirEntry(DirNames[i], files[i], dirs[i])>> ELSE <<>>)
             \o Listing(present, files, dirs, i + 1)

InitFiles ==
    /\ \E primary \in FileChoices, stat \in {"absent", "notdir", "error", "dir"},
          fails \in BOOLEAN, present \in SUBSET (1..Len(DirNames)) :
          \E files \in [present -> FileChoices], dirs \in [present -> BOOLEAN] :
             /\ Cardinality(present) <= MaxDirEntries
             /\ stat # "dir" => fails = FALSE /\ present = {}
             /\ fails => present = {}
             /\ \A i \in present : dirs[i] => files[i] = [readable |-> FALSE, lines |-> <<>>]
             /\ ReadConfigFilesStart([primary |-> primary, stat |-> stat,
                                      readDirFails |-> fails,
                                      entries |-> Listing(present, files, dirs, 1)])
    /\ ParserIdle
    /\ RegistryIdle
    /\ UIIdle
    /\ ColorsIdle
    /\ MainIdle

NextFiles ==
    ReadMainFile \/ StatConfigDir \/ ReadConfigDir \/ ReadNextFile \/ ReturnAllHosts

SpecFiles == InitFiles /\ [][NextFiles]_vars

(***************************************************************************)
(* The specification of the process: a command line, what ReadConfigFiles  *)
(* returns, and then main with the selector inside it.                     *)
(***************************************************************************)
sA == <<"a">>
sIPb == <<"1", ".", "2">>
sNoSuch == <<"z">>
sNumber2 == <<"2">>
sOpts == <<"-", "A", " ", " ", "-", "J", "\t", "j">>

MainHost(short, long, ip, number, groups) ==
    [UIHost(short, long, number, groups) EXCEPT !.IP = ip]

\* Three entries of a parse: b is reached under the long name a and has no
\* number, a and c both ask for number 2.
MainHostPool ==
    {MainHost(<<"a">>, <<"A", "b">>, <<>>, 2, <<sProd>>),
     MainHost(<<"b">>, <<"a">>, sIPb, 0, <<>>),
     MainHost(<<"c">>, <<"c">>, <<>>, 2, <<sWeb, sProd>>)}

GroupFlags == {<<>>, sProd, sUngrouped, sNoSuch}

ArgLists == {<<>>, <<sNumber2>>, <<sA>>, <<sIPb>>, <<sNoSuch, sA>>}

CommandLines ==
    {[home |-> h, l |-> l, g |-> g, V |-> v, s |-> IF v THEN sOpts ELSE <<>>, args |-> args] :
        h \in BOOLEAN, l \in BOOLEAN, g \in GroupFlags, v \in BOOLEAN, args \in ArgLists}

MainTypedStrings == {<<"a">>}

InitMain ==
    /\ \E commandLine \in CommandLines :
          \/ \E e \in BOOLEAN : MainStart(commandLine, [err |-> e, hosts |-> <<>>])
          \/ \E n \in 1..MaxMainHosts : \E hs \in [1..n -> MainHostPool] :
                /\ \A i, j \in 1..n : i # j => hs[i] # hs[j]
                /\ MainStart(commandLine, [err |-> FALSE, hosts |-> hs])
    /\ m = SetupUI(<<>>)
    /\ uiPc = "idle"
    /\ msg = NoMsg
    /\ ParserIdle
    /\ ColorsIdle
    /\ FilesIdle

NextMain ==
    \/ MainReadConfig
    \/ CallAssignMenuNumbers
    \/ MainListGroups
    \/ MainFilterGroup
    \/ MainDirectSelection
    \/ MainStartTerminalUI
    \/ RunUIFails
    \/ \E size \in TerminalSizes : WindowSize(size[1], size[2])
    \/ KeyEscape
    \/ KeyEnter
    \/ KeyUp
    \/ KeyDown
    \/ KeyLeft
    \/ KeyRight
    \/ KeyBackspace
    \/ \E char \in MainTypedStrings : KeyRunes(char)
    \/ KeyTab
    \/ OtherMsg
    \/ MainAfterUI
    \/ \E ok \in BOOLEAN : SSHReturns(ok)

SpecMain == InitMain /\ [][NextMain]_vars

(***************************************************************************)
(* The specification of the parser on the lines that set the fields of an  *)
(* entry: a file starts with nothing or with a block that is retained, and *)
(* goes on with a few lines, each setting one field or starting a block.   *)
(***************************************************************************)
lnHostname == <<"H", "o", "s", "t", "n", "a", "m", "e", " ", "h">>
lnHostNameCamel == <<"H", "o", "s", "t", "N", "a", "m", "e", " ", "h">>
lnUser == <<"U", "s", "e", "r", " ", "u">>
lnPort == <<"P", "o", "r", "t", " ", "2">>
lnIdentityFile ==
    <<"I", "d", "e", "n", "t", "i", "t", "y", "F", "i", "l", "e", "\t", "k">>
lnIP == <<"#", " ", "I", "P", ":", " ", "1", ".", "2">>
lnGroupQ == <<"#", "G", "r", "o", "u", "p", ":", "Q">>
lnGroupPTab == <<"#", " ", " ", "G", "r", "o", "u", "p", ":", "\t", "P", "\t">>
lnConnectTimeout5 ==
    <<"C", "o", "n", "n", "e", "c", "t", "T", "i", "m", "e", "o", "u", "t", " ", "5">>
lnServerAliveInterval6 ==
    <<"S", "e", "r", "v", "e", "r", "A", "l", "i", "v", "e",
      "I", "n", "t", "e", "r", "v", "a", "l", " ", "6">>
lnServerAliveCountMax7 ==
    <<"S", "e", "r", "v", "e", "r", "A", "l", "i", "v", "e",
      "C", "o", "u", "n", "t", "M", "a", "x", " ", "7">>

\* The lines after the first block are drawn from one of three pools: the
\* group lines, the lines of the names and of the login, the other options.
GroupLines == {lnHostB, lnMenu2Y, lnGroupP, lnGroupQ, lnGroupPTab}

NameLines == {lnHostB, lnMenu2Y, lnHostname, lnHostNameCamel, lnUser, lnPort}

OptionLines ==
    {lnHostB, lnMenu2Y, lnIdentityFile, lnIP, lnConnectTimeout5, lnServerAliveInterval6,
     lnServerAliveCountMax7}

FieldLinePools == {GroupLines, NameLines, OptionLines}

\* What a file of this specification starts with.
FirstBlocks == {<<>>, <<lnHostA, lnMenuX>>}

InitBlocks ==
    /\ \E first \in FirstBlocks, pool \in FieldLinePools, k \in 0..MaxFieldLines :
          \E lines \in [1..k -> pool] : ReadConfigFileStart(first \o lines)
    /\ RegistryIdle
    /\ UIIdle
    /\ ColorsIdle
    /\ FilesIdle
    /\ MainIdle

NextBlocks == ScanLine \/ ReturnHosts

SpecBlocks == InitBlocks /\ [][NextBlocks]_vars

(***************************************************************************)
(* The Host blocks of a file, read off its lines.                          *)
(***************************************************************************)
IsHostLine(l) == MatchKeyword(kwHost, TrimSpace(l)).ok

IsMenuLine(l) == MatchMenu(TrimSpace(l)).ok

HostLineIndices(f) == {i \in 1..Len(f) : IsHostLine(f[i])}

\* The last line of the block that starts at line i.
BlockEnd(f, i) ==
    IF \E j \in HostLineIndices(f) : j > i
    THEN (CHOOSE j \in HostLineIndices(f) :
              j > i /\ \A k \in HostLineIndices(f) : k > i => j <= k) - 1
    ELSE Len(f)

BlockHasMenu(f, i) == \E j \in i + 1..BlockEnd(f, i) : IsMenuLine(f[j])

\* The indices in S, ascending.
RECURSIVE Ascending(_)
Ascending(S) ==
    IF S = {} THEN <<>>
    ELSE LET lo == CHOOSE x \in S : \A y \in S : x <= y
         IN  <<lo>> \o Ascending(S \ {lo})

BlockName(f, i) == MatchKeyword(kwHost, TrimSpace(f[i])).group

\* The names of the blocks of f that hold a menu line, in file order.
MenuBlockNames(f) ==
    LET idx == Ascending({i \in HostLineIndices(f) : BlockHasMenu(f, i)})
    IN  [n \in 1..Len(idx) |-> BlockName(f, idx[n])]

\* The names of all the blocks of f, in file order.
AllBlockNames(f) ==
    LET idx == Ascending(HostLineIndices(f))
    IN  [n \in 1..Len(idx) |-> BlockName(f, idx[n])]

ShortNames(hs) == [n \in 1..Len(hs) |-> hs[n].ShortName]

\* A menu line whose explicit number strconv.Atoi rejects.
IsOutOfRangeMenuLine(l) ==
    LET menu == MatchMenu(TrimSpace(l))
    IN  menu.ok /\ menu.number # <<>> /\ ~Atoi(menu.number).ok

(***************************************************************************)
(* C1: every entry of the parser's result, and of the list it is building, *)
(* has a non-empty ShortName and a non-empty DescText, and the entries of  *)
(* a returned list are those of the blocks that hold a menu line: a block  *)
(* with no menu line contributes none.                                     *)
(***************************************************************************)
C1_OnlyMenuBlocksRetained ==
    /\ \A i \in 1..Len(hosts) : hosts[i].ShortName # <<>> /\ hosts[i].DescText # <<>>
    /\ ret.returned =>
          /\ \A i \in 1..Len(ret.hosts) :
                ret.hosts[i].ShortName # <<>> /\ ret.hosts[i].DescText # <<>>
          /\ ~ret.err => ShortNames(ret.hosts) = MenuBlockNames(file)
          /\ ret.err => ret.hosts = <<>>

\* A file with a block that has no menu line after a block that has one,
\* parsed to the end: one entry for two blocks.
C1_Witness ==
    /\ ret.returned
    /\ ~ret.err
    /\ Cardinality(HostLineIndices(file)) = 2
    /\ Len(ret.hosts) = 1
    /\ \E i \in HostLineIndices(file) : ~BlockHasMenu(file, i) /\ i > 1

(***************************************************************************)
(* C2: for a file whose N Host blocks each hold a menu line, readConfigFile*)
(* returns exactly N entries, one per block, in file order.                *)
(***************************************************************************)
AllBlocksHaveMenu(f) == \A i \in HostLineIndices(f) : BlockHasMenu(f, i)

\* The claim as stated: it fails on a file whose menu line carries a number
\* that does not fit an int, for which readConfigFile returns an error.
C2_AsStated ==
    (ret.returned /\ AllBlocksHaveMenu(file)) =>
        /\ Len(ret.hosts) = Cardinality(HostLineIndices(file))
        /\ ShortNames(ret.hosts) = AllBlockNames(file)

\* The claim for the files none of whose menu lines is out of range.
C2_OneEntryPerMenuBlock ==
    (/\ ret.returned
     /\ AllBlocksHaveMenu(file)
     /\ \A i \in 1..Len(file) : ~IsOutOfRangeMenuLine(file[i])) =>
        /\ ~ret.err
        /\ Len(ret.hosts) = Cardinality(HostLineIndices(file))
        /\ ShortNames(ret.hosts) = AllBlockNames(file)

\* Two blocks, each with its menu line, parsed to the end into two entries.
C2_Witness ==
    /\ ret.returned
    /\ ~ret.err
    /\ AllBlocksHaveMenu(file)
    /\ Cardinality(HostLineIndices(file)) = 2
    /\ Len(ret.hosts) = 2
    /\ ret.hosts[1].ShortName # ret.hosts[2].ShortName


(***************************************************************************)
(* What the registry claims speak of, read off a host list.                *)
(***************************************************************************)
Range(q) == {q[i] : i \in 1..Len(q)}

ExplicitNumbers(hs) == {hs[i].MenuNumber : i \in 1..Len(hs)} \ {0}

HasDuplicateExplicit(hs) ==
    \E i, j \in 1..Len(hs) :
        i # j /\ hs[i].MenuNumber # 0 /\ hs[i].MenuNumber = hs[j].MenuNumber

Smallest(S) == CHOOSE n \in S : \A k \in S : n <= k

\* The number the i-th entry is to receive when it has none: the smallest
\* positive integer that is no explicit number and that no earlier entry
\* without a number received.
RECURSIVE AutoNumber(_, _)
AutoNumber(hs, i) ==
    LET taken == ExplicitNumbers(hs) \cup
                 {AutoNumber(hs, j) : j \in {k \in 1..i - 1 : hs[k].MenuNumber = 0}}
    IN  Smallest((1..Len(hs) + 1) \ taken)

ExpectedNumber(hs, i) == IF hs[i].MenuNumber # 0 THEN hs[i].MenuNumber ELSE AutoNumber(hs, i)

\* The entry of hs with the name of h (the names of a list are distinct here).
NumberOf(hs, name) == hs[CHOOSE k \in 1..Len(hs) : hs[k].ShortName = name].MenuNumber

CarriedGroups(hs) == UNION {Range(hs[i].Groups) : i \in 1..Len(hs)}

HasGroupless(hs) == \E i \in 1..Len(hs) : hs[i].Groups = <<>>

ExpectedGroupNames(hs) ==
    CarriedGroups(hs) \cup (IF HasGroupless(hs) THEN {sUngrouped} ELSE {})

\* a before b in lexical (byte) order
LexicallyBefore(a, b) ==
    \E k \in 1..Len(b) :
        /\ k <= Len(a) + 1
        /\ \A j \in 1..k - 1 : a[j] = b[j]
        /\ k = Len(a) + 1 \/ Ord(a[k]) < Ord(b[k])

\* g is a key under which h is to be filed.
FiledUnder(h, g) == IF h.Groups = <<>> THEN g = sUngrouped ELSE g \in Range(h.Groups)

(***************************************************************************)
(* C3: when two entries of the list handed to AssignMenuNumbers carry the  *)
(* same explicit (non-zero) number, the call ends in os.Exit(1) and main   *)
(* never holds a numbered list, wherever the two entries sit.              *)
(***************************************************************************)
C3_DuplicateExplicitIsFatal ==
    /\ (regCall.fn = "AssignMenuNumbers" /\ HasDuplicateExplicit(regCall.arg)) =>
          regCall.out.exit /\ mainPc = "exit1"
    /\ HasDuplicateExplicit(parsedHosts) => mainPc \in {"parsed", "exit1"}

\* The first and the last of three entries share a number, the one between
\* has another: the call exits.
C3_Witness ==
    /\ mainPc = "exit1"
    /\ Len(parsedHosts) = 3
    /\ parsedHosts[1].MenuNumber = parsedHosts[3].MenuNumber
    /\ parsedHosts[1].MenuNumber # 0
    /\ parsedHosts[2].MenuNumber \notin {0, parsedHosts[1].MenuNumber}

(***************************************************************************)
(* C4: when AssignMenuNumbers returns, an explicit number is unchanged and *)
(* every entry that had number 0 has, taken in input order, the smallest   *)
(* positive integer used neither by an explicit number nor by an earlier   *)
(* entry numbered so; with no explicit number the entries get 1..N in      *)
(* their input order.                                                      *)
(***************************************************************************)
C4_SmallestUnusedNumbers ==
    (regCall.fn = "AssignMenuNumbers" /\ ~regCall.out.exit) =>
        LET in == regCall.arg
            out == regCall.out.hosts
        IN  /\ Len(out) = Len(in)
            /\ \A i \in 1..Len(in) :
                  NumberOf(out, in[i].ShortName) = ExpectedNumber(in, i)
            /\ ExplicitNumbers(in) = {} =>
                  out = [i \in 1..Len(in) |-> [in[i] EXCEPT !.MenuNumber = i]]

\* web1, db with explicit 1, lb: db = 1, web1 = 2, lb = 3.
C4_Witness ==
    /\ regCall.fn = "AssignMenuNumbers"
    /\ ~regCall.out.exit
    /\ [i \in 1..Len(regCall.arg) |-> regCall.arg[i].MenuNumber] = <<0, 1, 0>>
    /\ [i \in 1..3 |-> NumberOf(mainHosts, regCall.arg[i].ShortName)] = <<2, 1, 3>>

(***************************************************************************)
(* C9: GetAllGroups returns, without duplicates, the group names some      *)
(* entry carries, and "Ungrouped" as well when some entry has no group, in *)
(* ascending lexical order but for "Ungrouped", which is last when present.*)
(***************************************************************************)
C9_AllGroupsSortedUngroupedLast ==
    regCall.fn = "GetAllGroups" =>
        LET out == regCall.out
        IN  /\ Range(out) = ExpectedGroupNames(regCall.arg)
            /\ \A i, j \in 1..Len(out) : i < j =>
                  /\ out[i] # out[j]
                  /\ out[i] # sUngrouped
                  /\ out[j] = sUngrouped \/ LexicallyBefore(out[i], out[j])
            /\ sUngrouped \in Range(out) => out[Len(out)] = sUngrouped

\* A group that sorts after "Ungrouped" in byte order, a group that sorts
\* before it, and an entry with no group.
C9_Witness ==
    /\ regCall.fn = "GetAllGroups"
    /\ regCall.out = <<sProd, sWeb, sUngrouped>>
    /\ HasGroupless(regCall.arg)

(***************************************************************************)
(* C10: GroupHosts files an entry with no group under "Ungrouped" and an   *)
(* entry with groups under each of its groups, and under no other key: an  *)
(* entry with k groups is in k lists, and each list is in input order.     *)
(***************************************************************************)
C10_GroupHostsFilesUnderEveryGroup ==
    regCall.fn = "GroupHosts" =>
        LET hs == regCall.arg
            out == regCall.out
        IN  /\ DOMAIN out = ExpectedGroupNames(hs)
            /\ \A g \in DOMAIN out :
                  LET Filed(h) == FiledUnder(h, g)
                  IN  out[g] = SelectSeq(hs, Filed)
            /\ \A i \in 1..Len(hs) :
                  Cardinality({g \in DOMAIN out : hs[i] \in Range(out[g])}) =
                      IF hs[i].Groups = <<>> THEN 1 ELSE Len(hs[i].Groups)

\* An entry with two groups after an entry with one of them, and an entry
\* with no group.
C10_Witness ==
    /\ regCall.fn = "GroupHosts"
    /\ HasGroupless(regCall.arg)
    /\ \E i, j \in 1..Len(regCall.arg) :
          /\ i < j
          /\ regCall.arg[i].Groups = <<sProd>>
          /\ regCall.arg[j].Groups = <<sWeb, sProd>>
          /\ regCall.out[sProd] = <<regCall.arg[i], regCall.arg[j]>>
          /\ regCall.out[sWeb] = <<regCall.arg[j]>>


(***************************************************************************)
(* What the selector claims speak of.                                      *)
(***************************************************************************)
IsPrefixOf(p, q) == Len(p) <= Len(q) /\ SubSeq(q, 1, Len(p)) = p

\* The decimal text of n: the digits, without a leading zero, whose value
\* is n.
DecimalText ==
    [n \in 0..99 |->
        CHOOSE d \in UNION {[1..k -> Range(DigitBytes)] : k \in 1..2} :
            /\ DecimalValue(d) = n
            /\ Len(d) > 1 => d[1] # "0"]

SameLetter(a, b) ==
    \/ a = b
    \/ \E i \in 1..Len(UpperBytes) : {a, b} = {UpperBytes[i], LowerBytes[i]}

IsPrefixIgnoringCase(p, q) ==
    Len(p) <= Len(q) /\ \A i \in 1..Len(p) : SameLetter(p[i], q[i])

ShouldBeListed(h, filterText) ==
    \/ IsPrefixOf(filterText, DecimalText[h.MenuNumber])
    \/ IsPrefixIgnoringCase(filterText, h.ShortName)
    \/ IsPrefixIgnoringCase(filterText, h.LongName)

(***************************************************************************)
(* C5: filteredHosts is the subsequence, in the order of the view, of the  *)
(* hosts of the current view for which filterText is a prefix of the       *)
(* decimal text of MenuNumber or, ignoring case, of ShortName or of        *)
(* LongName; with an empty filterText it is the list of the view.          *)
(***************************************************************************)
C5_FilteredHostsArePrefixMatches ==
    uiPc # "idle" =>
        LET Listed(h) == ShouldBeListed(h, m.filterText)
        IN  /\ m.filteredHosts = SelectSeq(ViewHosts(m), Listed)
            /\ m.filterText = <<>> => m.filteredHosts = ViewHosts(m)

\* "1" typed: a host numbered 1 whose names do not start with 1 is kept, a
\* host of the view is dropped.
C5_Witness ==
    /\ uiPc = "running"
    /\ msg.type = "KeyRunes"
    /\ m.filterText = <<"1">>
    /\ Len(m.filteredHosts) < Len(ViewHosts(m))
    /\ \E i \in 1..Len(m.filteredHosts) :
          /\ m.filteredHosts[i].MenuNumber = 1
          /\ Head(m.filteredHosts[i].ShortName) # "1"
          /\ Head(m.filteredHosts[i].LongName) # "1"

(***************************************************************************)
(* C6: on the Enter key, a filtered list of exactly one host selects that  *)
(* host and quits; otherwise a cursor on an entry of the list selects that *)
(* entry and quits; otherwise the list is empty and nothing changes: no    *)
(* selection, the program keeps running.                                   *)
(***************************************************************************)
C6_EnterSelectsOrIsNoOp ==
    [][msg'.type = "KeyEnter" =>
          IF Len(m.filteredHosts) = 1
          THEN /\ m' = [m EXCEPT !.Selected = <<m.filteredHosts[1]>>]
               /\ uiPc' = "quit"
          ELSE IF m.cursor >= 0 /\ m.cursor < Len(m.filteredHosts)
          THEN /\ m' = [m EXCEPT !.Selected = <<m.filteredHosts[m.cursor + 1]>>]
               /\ uiPc' = "quit"
          ELSE /\ m.filteredHosts = <<>>
               /\ m' = m
               /\ uiPc' = "running"]_vars

\* Enter with the cursor on the second of two hosts: that host is selected.
C6_Witness ==
    /\ msg.type = "KeyEnter"
    /\ uiPc = "quit"
    /\ m.cursor = 1
    /\ Len(m.filteredHosts) = 2
    /\ m.Selected = <<m.filteredHosts[2]>>

(***************************************************************************)
(* C7: in every state in which the selector is running the Escape key can  *)
(* be handled, and handling it quits at once with no selection.            *)
(***************************************************************************)
C7_EscapeAlwaysQuits ==
    /\ [](uiPc = "running" => ENABLED KeyEscape)
    /\ [][msg'.type = "KeyEscape" =>
             uiPc = "running" /\ uiPc' = "quit" /\ m' = m /\ m'.Selected = <<>>]_vars

\* Escape in a group view, with a filter that matches nothing and the
\* cursor moved.
C7_Witness ==
    /\ msg.type = "KeyEscape"
    /\ uiPc = "quit"
    /\ m.Selected = <<>>
    /\ m.viewIndex > 0
    /\ m.filterText # <<>>
    /\ m.filteredHosts = <<>>

(***************************************************************************)
(* C8: the selector ends with a host selected or cancelled: there is no    *)
(* selection while it runs, only the Enter key that quits sets one, and    *)
(* the host selected is one of filteredHosts, hence of hosts, as they were *)
(* at that key.                                                            *)
(***************************************************************************)
C8_SelectionOnlyByQuittingEnter ==
    /\ [](uiPc = "running" => m.Selected = <<>>)
    /\ [](uiPc = "quit" =>
             \/ m.Selected = <<>> /\ msg.type = "KeyEscape"
             \/ /\ msg.type = "KeyEnter"
                /\ Len(m.Selected) = 1
                /\ m.Selected[1] \in Range(m.filteredHosts)
                /\ m.Selected[1] \in Range(m.hosts))
    /\ [][m'.Selected # m.Selected =>
             /\ msg'.type = "KeyEnter"
             /\ uiPc' = "quit"
             /\ m'.Selected[1] \in Range(m.filteredHosts)]_vars
    /\ [][uiPc = "quit" => UNCHANGED vars]_vars

\* A host selected out of a filtered list that is shorter than the list of
\* all hosts.
C8_Witness ==
    /\ uiPc = "quit"
    /\ m.Selected # <<>>
    /\ m.filterText # <<>>
    /\ Len(m.filteredHosts) < Len(m.hosts)
    /\ m.Selected[1] # m.hosts[1]

(***************************************************************************)
(* What the color claim speaks of.                                         *)
(***************************************************************************)
\* The lines of the file that are a comment for slot s.
OverrideLines(in, s) ==
    {i \in 1..Len(in.lines) : MatchComment(colorTags[s], TrimSpace(in.lines[i])).ok}

\* Whether ApplyColorConfig gets an override for slot s from the file.
HasOverride(in, s) ==
    in.configPath # <<>> /\ in.readable /\ OverrideLines(in, s) # {}

\* The override: the trimmed value of the last such comment.
Override(in, s) ==
    LET last == CHOOSE i \in OverrideLines(in, s) : \A j \in OverrideLines(in, s) : j <= i
    IN  TrimSpace(MatchComment(colorTags[s], TrimSpace(in.lines[last])).group)

(***************************************************************************)
(* C11: for each of the six slots, the value ApplyColorConfig stores is    *)
(* the slot's environment variable when it is set, otherwise the override  *)
(* of the configuration file when there is one, otherwise the default,     *)
(* also when the environment holds the slot's default.                     *)
(***************************************************************************)
C11_EnvThenFileThenDefault ==
    colorPc = "stored" =>
        \A s \in Slots :
            currentColorConfig[s] =
                IF colorIn.env[colorEnvVars[s]] # <<>> THEN colorIn.env[colorEnvVars[s]]
                ELSE IF HasOverride(colorIn, s) THEN Override(colorIn, s)
                ELSE DefaultColors[s]

(***************************************************************************)
(* What the claim about ReadConfigFiles speaks of.                         *)
(***************************************************************************)
\* A file of config.d: an entry of the listing that is neither a directory
\* nor hidden.
IsConfigDFile(e) == ~e.isDir /\ Head(e.name) # "."

\* A file that cannot be read or parsed.
FileFails(f) == ~f.readable \/ readConfigFile(f).err

\* The hosts of the files of the listing that do not fail, in listing order.
RECURSIVE HostsOfListing(_)
HostsOfListing(entries) ==
    IF entries = <<>> THEN <<>>
    ELSE (IF IsConfigDFile(Head(entries)) /\ ~FileFails(Head(entries))
          THEN readConfigFile(Head(entries)).hosts
          ELSE <<>>) \o HostsOfListing(Tail(entries))

\* The files of the listing that fail, by name, in listing order.
RECURSIVE FailedFiles(_)
FailedFiles(entries) ==
    IF entries = <<>> THEN <<>>
    ELSE (IF IsConfigDFile(Head(entries)) /\ FileFails(Head(entries))
          THEN <<Head(entries).name>>
          ELSE <<>>) \o FailedFiles(Tail(entries))

\* config.d is there and could be listed.
ConfigDirListed == fs.stat = "dir" /\ ~fs.readDirFails

(***************************************************************************)
(* C12: ReadConfigFiles returns an error and no hosts when the primary     *)
(* file cannot be read.  When the primary file is read and config.d is     *)
(* listed, a file of config.d that cannot be read or parsed gives a        *)
(* warning and nothing else: the call returns, without error, the hosts    *)
(* of the primary file followed by the hosts of the other files of         *)
(* config.d in listing order, and none of the failed file.                 *)
(***************************************************************************)
C12_PrimaryFatalConfigDSkipped ==
    rcf.ret.returned =>
        /\ ~fs.primary.readable => rcf.ret.err /\ rcf.ret.hosts = <<>>
        /\ (~FileFails(fs.primary) /\ ConfigDirListed) =>
              /\ ~rcf.ret.err
              /\ rcf.ret.hosts =
                    readConfigFile(fs.primary).hosts \o HostsOfListing(fs.entries)
              /\ rcf.warnings = FailedFiles(fs.entries)

\* A listing where a file fails to parse and a later file gives hosts, the
\* primary file having given one.
C12_Witness ==
    /\ rcf.ret.returned
    /\ ~FileFails(fs.primary)
    /\ readConfigFile(fs.primary).hosts # <<>>
    /\ ConfigDirListed
    /\ \E i, j \in 1..Len(fs.entries) :
          /\ i < j
          /\ IsConfigDFile(fs.entries[i])
          /\ fs.entries[i].lines = cfBad
          /\ IsConfigDFile(fs.entries[j])
          /\ ~FileFails(fs.entries[j])
          /\ readConfigFile(fs.entries[j]).hosts # <<>>

(***************************************************************************)
(* What the claim about invalid menu numbers speaks of.                    *)
(***************************************************************************)
\* The place of the first colon of s, 0 when it has none.
RECURSIVE ColonAt(_, _)
ColonAt(s, i) ==
    IF i > Len(s) THEN 0 ELSE IF s[i] = ":" THEN i ELSE ColonAt(s, i + 1)

\* A menu comment with an explicit number that is not one: `# Menu <text>:`
\* where <text> is not a string of digits, or is one out of the range of int.
IsInvalidMenuNumberLine(l) ==
    LET line == TrimSpace(l)
        afterHash == IF line = <<>> THEN <<>> ELSE Drop(line, 1 + SpaceRun(Tail(line)))
        afterMenu == Drop(afterHash, Len(kwMenu))
        k == SpaceRun(afterMenu)
        rest == Drop(afterMenu, k)
        c == ColonAt(rest, 1)
        text == SubSeq(rest, 1, c - 1)
    IN  /\ line # <<>>
        /\ Head(line) = "#"
        /\ HasPrefix(afterHash, kwMenu)
        /\ k >= 1
        /\ c > 1
        /\ ~(DigitRun(text) = Len(text) /\ Atoi(text).ok)

\* A ConnectTimeout, ServerAliveInterval or ServerAliveCountMax line whose
\* value is not a number.
IsMalformedTuningLine(l) ==
    \E kw \in {kwConnectTimeout, kwServerAliveInterval, kwServerAliveCountMax} :
        /\ MatchKeyword(kw, TrimSpace(l)).ok
        /\ LET v == MatchKeyword(kw, TrimSpace(l)).group
           IN  ~(DigitRun(v) = Len(v) /\ Atoi(v).ok)

(***************************************************************************)
(* C13: a file holding a menu comment whose explicit number is invalid     *)
(* (text that is not a number between Menu and the colon, or a number that *)
(* does not parse as an int) is never parsed to the end: readConfigFile    *)
(* returns an error.  A malformed ConnectTimeout, ServerAliveInterval or   *)
(* ServerAliveCountMax value, by contrast, gives no error and leaves the   *)
(* entry as it was.                                                        *)
(***************************************************************************)
C13_InvalidMenuNumberIsFatal ==
    /\ [](ret.returned /\ (\E i \in 1..Len(file) : IsInvalidMenuNumberLine(file[i]))
             => ret.err)
    /\ [][(~ret.returned /\ scanPos <= Len(file) /\ IsMalformedTuningLine(file[scanPos]))
             => (~ret'.returned /\ current' = current /\ hosts' = hosts)]_vars

(***************************************************************************)
(* What the claims about the process speak of.                             *)
(***************************************************************************)
Last(q) == q[Len(q)]

\* The interactive UI was entered in this run.
UIEntered == uiPc # "idle"

\* The process has ended with this status.
ExitedWith(code) == mainPc = (IF code = 0 THEN "exit0" ELSE "exit1")

Exited == mainPc \in {"exit0", "exit1"}

\* The selector loop has ended on the cancel key: it quit with no selection.
Cancelled == uiPc = "quit" /\ m.Selected = <<>>

(***************************************************************************)
(* C14: in a run that enters the interactive UI no ssh command is started  *)
(* while the selector loop runs; one is started only once the loop has     *)
(* quit with a host selected, it is the only one, and its last argument is *)
(* that host's ShortName.  After a cancel no ssh command is ever started   *)
(* and the process ends with status 0.                                     *)
(***************************************************************************)
C14_SSHOnlyAfterSelection ==
    /\ [](uiPc = "running" => ssh = <<>>)
    /\ [][(UIEntered /\ ssh' # ssh) =>
             /\ uiPc = "quit"
             /\ m.Selected # <<>>
             /\ ssh = <<>>
             /\ Len(ssh') = 1
             /\ Last(ssh'[1]) = m.Selected[1].ShortName]_vars
    /\ [](Cancelled => ssh = <<>> /\ mainPc \in {"ui", "exit0"})
    /\ [][(Cancelled /\ ~Exited) => ExitedWith(0)']_vars

\* The loop quit with a host selected, ssh was started with options before
\* the host's name, and the process has ended.
C14_Witness ==
    /\ uiPc = "quit"
    /\ m.Selected # <<>>
    /\ Len(ssh) = 1
    /\ Len(ssh[1]) > 1
    /\ Exited

\* AssignMenuNumbers has returned a numbered list to main.
Numbered == regCall.fn = "AssignMenuNumbers" /\ ~regCall.out.exit

\* The positional argument is the decimal text of a number.
IsNumericArg(s) == \E n \in 0..99 : DecimalText[n] = s

ArgNumber(s) == CHOOSE n \in 0..99 : DecimalText[n] = s

\* The hosts of hs the argument designates: by menu number when it is
\* numeric, by ShortName, LongName or IP otherwise.
Designated(hs, input) ==
    IF IsNumericArg(input)
    THEN {i \in 1..Len(hs) : hs[i].MenuNumber = ArgNumber(input)}
    ELSE {i \in 1..Len(hs) :
             hs[i].ShortName = input \/ hs[i].LongName = input \/ hs[i].IP = input}

\* The first of them in menu-number order.
FirstDesignated(hs, input) ==
    CHOOSE i \in Designated(hs, input) :
        \A j \in Designated(hs, input) : hs[i].MenuNumber <= hs[j].MenuNumber

\* The outcome of a direct selection over hs: ssh started once for the host
\* designated, or no ssh and status 1 when none is.
SelectedDirectly(hs, input) ==
    IF Designated(hs, input) # {}
    THEN Len(ssh) = 1 /\ Last(ssh[1]) = hs[FirstDesignated(hs, input)].ShortName
    ELSE ssh = <<>> /\ ExitedWith(1)

\* C15 as it is stated: with a positional argument the host it designates is
\* selected, whatever the flags.
C15_AsStated ==
    /\ Len(cli.args) > 0 => ~UIEntered
    /\ (Numbered /\ Len(cli.args) > 0 /\ Exited) => SelectedDirectly(mainHosts, cli.args[1])

(***************************************************************************)
(* C15: with a positional argument the interactive UI is never entered.    *)
(* When moreover -l is not given and main has a numbered list, the search  *)
(* runs over the hosts the -g filter leaves (all of them without -g): a    *)
(* numeric argument selects the host with that menu number, another        *)
(* argument the first host in menu-number order whose ShortName, LongName  *)
(* or IP equals it, and when no host matches the process exits with        *)
(* status 1 and starts no ssh.                                             *)
(***************************************************************************)
C15_DirectSelection ==
    /\ Len(cli.args) > 0 => ~UIEntered
    /\ (Numbered /\ ~cli.l /\ Len(cli.args) > 0 /\ Exited) =>
          SelectedDirectly(mainHosts, cli.args[1])

\* The argument a designates two hosts, b by its long name and a by its short
\* name, and ssh was started for b, which has the lower menu number.
C15_Witness ==
    /\ Exited
    /\ ~cli.l
    /\ Len(cli.args) > 0
    /\ cli.args[1] = sA
    /\ Cardinality(Designated(mainHosts, sA)) = 2
    /\ Len(ssh) = 1
    /\ Last(ssh[1]) = <<"b">>

\* Host h belongs to group g: it carries g, or it carries no group when g is
\* "Ungrouped".
BelongsTo(h, g) == IF g = sUngrouped THEN h.Groups = <<>> ELSE g \in Range(h.Groups)

\* The listing of -l: a heading, then each group of GetAllGroups with the
\* number of hosts that belong to it.
GroupListing(hs) ==
    <<[text |-> "Available groups:"]>>
        \o [i \in 1..Len(GetAllGroups(hs)) |->
               [group |-> GetAllGroups(hs)[i],
                count |-> Cardinality({k \in 1..Len(hs) :
                                          BelongsTo(hs[k], GetAllGroups(hs)[i])})]]

\* C16 as it is stated: with -l the process lists the groups and ends with
\* status 0, whatever else.
C16_AsStated ==
    /\ cli.l => ~UIEntered /\ ssh = <<>>
    /\ (cli.l /\ Exited) => ExitedWith(0) /\ printed = GroupListing(mainHosts)

(***************************************************************************)
(* C16: with -l the interactive UI is never entered and no ssh command is  *)
(* started, whatever the other flags and arguments.  When moreover the     *)
(* configuration was read, holds a host and AssignMenuNumbers returned,    *)
(* the process prints each group with the number of its hosts and ends     *)
(* with status 0; otherwise it ends with status 1 and lists nothing.       *)
(***************************************************************************)
C16_ListGroupsAndExit ==
    /\ cli.l => ~UIEntered /\ ssh = <<>>
    /\ (cli.l /\ Exited) =>
          IF Numbered
          THEN ExitedWith(0) /\ printed = GroupListing(mainHosts)
          ELSE ExitedWith(1) /\ \A i \in 1..Len(printed) : "group" \notin DOMAIN printed[i]

\* -l with a -g flag and a positional argument: the groups were listed, a
\* host with two groups counted in each, and the process has ended.
C16_Witness ==
    /\ cli.l
    /\ cli.g # <<>>
    /\ Len(cli.args) > 0
    /\ ExitedWith(0)
    /\ Len(printed) > 2
    /\ \E i \in 1..Len(mainHosts) : Len(mainHosts[i].Groups) = 2

(***************************************************************************)
(* C17: when the configuration is read and holds no eligible host, and     *)
(* when the -g filter is applied and leaves no host, the process prints a  *)
(* message and ends with status 1 there and then: the selector is never    *)
(* created over an empty host list and no ssh command is started.          *)
(***************************************************************************)
C17_NoHostsIsFatal ==
    /\ [](UIEntered => m.hosts # <<>>)
    /\ []((cli.home /\ ~cfg.err /\ cfg.hosts = <<>> /\ mainPc # "start") =>
             /\ ExitedWith(1)
             /\ printed # <<>>
             /\ ~UIEntered
             /\ ssh = <<>>)
    /\ [][(/\ mainPc = "numbered"
           /\ ~cli.l
           /\ cli.g # <<>>
           /\ \A i \in 1..Len(mainHosts) : ~BelongsTo(mainHosts[i], cli.g)) =>
             /\ ExitedWith(1)'
             /\ Len(printed') = Len(printed) + 1
             /\ ~UIEntered'
             /\ ssh' = <<>>]_vars
    /\ [][~Exited]_vars

\* The filter of -g left no host of a numbered list: a message, status 1.
C17_Witness ==
    /\ Numbered
    /\ ~cli.l
    /\ cli.g # <<>>
    /\ mainHosts = <<>>
    /\ ExitedWith(1)
    /\ printed # <<>>
    /\ ~UIEntered

(***************************************************************************)
(* C18: filtering is idempotent.  Whatever the view and the filter text,   *)
(* updateFilteredHosts applied with the same text to a view that is the    *)
(* list it has just produced gives that list again.                        *)
(***************************************************************************)
C18_FilterIdempotent ==
    uiPc # "idle" =>
        updateFilteredHosts([m EXCEPT !.hosts = m.filteredHosts,
                                      !.viewIndex = 0]).filteredHosts
            = m.filteredHosts

\* A filter text that keeps some hosts of the view and drops others.
C18_Witness ==
    /\ uiPc = "running"
    /\ m.filterText # <<>>
    /\ m.filteredHosts # <<>>
    /\ Len(m.filteredHosts) < Len(ViewHosts(m))

(***************************************************************************)
(* C19: on the cursor-up and cursor-down keys the cursor moves by -1 and   *)
(* by +1 and stays within 0 .. Len(filteredHosts) - 1: it stays at 0 on    *)
(* cursor-up from 0 and at the last index on cursor-down from the last     *)
(* index, it is never below 0, and no other field of the model changes.    *)
(***************************************************************************)
C19_CursorMovesClamped ==
    [][msg'.type \in {"KeyUp", "KeyDown"} =>
          LET target == m.cursor + (IF msg'.type = "KeyUp" THEN -1 ELSE 1)
              n == Len(m.filteredHosts)
          IN  /\ m'.cursor = IF target < 0 \/ n = 0 THEN 0
                             ELSE IF target > n - 1 THEN n - 1
                             ELSE target
              /\ m' = [m EXCEPT !.cursor = m'.cursor]
              /\ uiPc' = uiPc]_vars

(***************************************************************************)
(* C20: the view-left key steps viewIndex by -1, the view-right key and    *)
(* Tab by +1, modulo 1 + Len(groups): left of view 0 is the last view,     *)
(* right of the last view is view 0, and viewIndex is within               *)
(* 0 .. Len(groups) in every state.                                        *)
(***************************************************************************)
C20_ViewIndexWraps ==
    /\ [](0 <= m.viewIndex /\ m.viewIndex <= Len(m.groups))
    /\ [][msg'.type = "KeyLeft" =>
             m'.viewIndex = (m.viewIndex + Len(m.groups)) % (1 + Len(m.groups))]_vars
    /\ [][msg'.type \in {"KeyRight", "KeyTab"} =>
             m'.viewIndex = (m.viewIndex + 1) % (1 + Len(m.groups))]_vars
    /\ [][m'.groups = m.groups]_vars

\* The view-left key has just wrapped from view 0 to the last of several
\* group views.
C20_Witness ==
    /\ msg.type = "KeyLeft"
    /\ Len(m.groups) >= 2
    /\ m.viewIndex = Len(m.groups)

(***************************************************************************)
(* What the claims about the selector's keys speak of.                     *)
(***************************************************************************)
\* The complete host list of the view of a model: every host in view 0, the
\* hosts that belong to the view's group otherwise, in the order of hosts.
ViewList(mm) ==
    LET InView(h) == BelongsTo(h, mm.groups[mm.viewIndex])
    IN  IF mm.viewIndex = 0 THEN mm.hosts ELSE SelectSeq(mm.hosts, InView)

ViewChangeKeys == {"KeyLeft", "KeyRight", "KeyTab"}

(***************************************************************************)
(* C21: after every view-change key (left, right or Tab) filterText is     *)
(* empty, cursor is 0 and filteredHosts is the complete host list of the   *)
(* new view, whatever the filter text and the cursor were before.          *)
(***************************************************************************)
C21_ViewChangeResets ==
    [][msg'.type \in ViewChangeKeys =>
          /\ m'.filterText = <<>>
          /\ m'.cursor = 0
          /\ m'.filteredHosts = ViewList(m')
          /\ m'.hosts = m.hosts]_vars

\* A view-change key has just led to a group view that holds some of the
\* hosts and not all of them.
C21_Witness ==
    /\ msg.type \in ViewChangeKeys
    /\ m.viewIndex > 0
    /\ m.filterText = <<>>
    /\ m.cursor = 0
    /\ m.filteredHosts # <<>>
    /\ Len(m.filteredHosts) < Len(m.hosts)

\* The bytes of the last character (rune) of a non-empty string: those of a
\* whole rune outside ASCII, one byte otherwise.
LastCharacterLen(s) ==
    IF Len(s) >= Len(runeEAcute) /\ Drop(s, Len(s) - Len(runeEAcute)) = runeEAcute
    THEN Len(runeEAcute)
    ELSE IF Len(s) >= Len(runeError) /\ Drop(s, Len(s) - Len(runeError)) = runeError
    THEN Len(runeError)
    ELSE 1

\* s without its last character; the empty string stays empty.
WithoutLastCharacter(s) ==
    IF s = <<>> THEN <<>> ELSE SubSeq(s, 1, Len(s) - LastCharacterLen(s))

\* The filter recomputation for a model: the hosts of its view that its
\* filter text lists, in the order of the view.
Recomputed(mm) ==
    LET Listed(h) == ShouldBeListed(h, mm.filterText)
    IN  SelectSeq(ViewList(mm), Listed)

(***************************************************************************)
(* C22: after every Backspace key filterText is its previous value without *)
(* its last character (still empty when it was empty), filteredHosts is    *)
(* recomputed for the new text and cursor is 0; nothing else changes.      *)
(***************************************************************************)
C22_BackspaceRemovesLastCharacter ==
    [][msg'.type = "KeyBackspace" =>
          /\ m'.filterText = WithoutLastCharacter(m.filterText)
          /\ m'.filteredHosts = Recomputed(m')
          /\ m'.cursor = 0
          /\ m' = [m EXCEPT !.filterText = m'.filterText,
                            !.filteredHosts = m'.filteredHosts,
                            !.cursor = 0]
          /\ uiPc' = uiPc]_vars

(***************************************************************************)
(* C23: after every character-input key filterText is its previous value   *)
(* with the typed character appended, filteredHosts is recomputed for the  *)
(* new text, cursor is 0 and viewIndex is unchanged; nothing else changes. *)
(***************************************************************************)
C23_TypedCharacterAppended ==
    [][msg'.type = "KeyRunes" =>
          /\ m'.filterText = m.filterText \o msg'.String
          /\ m'.filteredHosts = Recomputed(m')
          /\ m'.cursor = 0
          /\ m'.viewIndex = m.viewIndex
          /\ m' = [m EXCEPT !.filterText = m'.filterText,
                            !.filteredHosts = m'.filteredHosts,
                            !.cursor = 0]
          /\ uiPc' = uiPc]_vars

\* A second character typed in a group view: the text is two characters
\* long and lists some hosts of the view and not all of them.
C23_Witness ==
    /\ msg.type = "KeyRunes"
    /\ Len(m.filterText) > Len(msg.String)
    /\ m.viewIndex > 0
    /\ m.cursor = 0
    /\ m.filteredHosts # <<>>
    /\ Len(m.filteredHosts) < Len(ViewList(m))

(***************************************************************************)
(* C24: a resize message changes the stored width and height and nothing   *)
(* else: hosts, viewIndex, filterText, cursor, filteredHosts and Selected  *)
(* are as they were and the program keeps running.                         *)
(***************************************************************************)
C24_ResizeChangesOnlySize ==
    [][msg'.type = "WindowSizeMsg" =>
          /\ m' = [m EXCEPT !.width = msg'.Width, !.height = msg'.Height]
          /\ m'.hosts = m.hosts
          /\ m'.viewIndex = m.viewIndex
          /\ m'.filterText = m.filterText
          /\ m'.cursor = m.cursor
          /\ m'.filteredHosts = m.filteredHosts
          /\ m'.Selected = m.Selected
          /\ uiPc = "running"
          /\ uiPc' = "running"]_vars

\* A resize in a group view, with a filter typed and the cursor moved off
\* the first host: the size is stored, the rest is still there.
C24_Witness ==
    /\ msg.type = "WindowSizeMsg"
    /\ m.width = msg.Width
    /\ m.height = msg.Height
    /\ m.width > 0
    /\ m.viewIndex > 0
    /\ m.filterText # <<>>
    /\ m.cursor > 0
    /\ uiPc = "running"

\* p is a one-to-one placing of the n entries of a list in another.
IsPlacing(p, n) == \A i, j \in 1..n : i # j => p[i] # p[j]

(***************************************************************************)
(* C25: when AssignMenuNumbers returns, the list it returns is a           *)
(* permutation of the entries it was given: none dropped, none twice, no   *)
(* field other than MenuNumber changed; and it is in ascending order of    *)
(* MenuNumber.  It is the list main goes on with.                          *)
(***************************************************************************)
C25_ResultIsSortedPermutation ==
    (regCall.fn = "AssignMenuNumbers" /\ ~regCall.out.exit) =>
        LET in == regCall.arg
            out == regCall.out.hosts
            n == Len(in)
        IN  /\ Len(out) = n
            /\ \E p \in [1..n -> 1..n] :
                  /\ IsPlacing(p, n)
                  /\ \A i \in 1..n :
                        out[p[i]] = [in[i] EXCEPT !.MenuNumber = out[p[i]].MenuNumber]
            /\ \A i \in 1..n - 1 : out[i].MenuNumber <= out[i + 1].MenuNumber
            /\ mainHosts = out

\* Three entries given in descending order of their numbers, the second
\* without one: the list returned is the list given, reversed.
C25_Witness ==
    /\ regCall.fn = "AssignMenuNumbers"
    /\ ~regCall.out.exit
    /\ Len(regCall.arg) = 3
    /\ regCall.arg[2].MenuNumber = 0
    /\ ShortNames(regCall.out.hosts) =
          <<regCall.arg[3].ShortName, regCall.arg[2].ShortName, regCall.arg[1].ShortName>>

(***************************************************************************)
(* What the claims about the lines of a block speak of.                    *)
(***************************************************************************)
IsGroupLine(l) == MatchComment(kwGroup, TrimSpace(l)).ok

\* The value of a group line: what follows `Group:`, trimmed.
GroupValue(l) == TrimSpace(MatchComment(kwGroup, TrimSpace(l)).group)

\* The values of the group lines among lines from..to of f, in file order.
RECURSIVE GroupValues(_, _, _)
GroupValues(f, from, to) ==
    IF from > to THEN <<>>
    ELSE (IF IsGroupLine(f[from]) THEN <<GroupValue(f[from])>> ELSE <<>>)
             \o GroupValues(f, from + 1, to)

\* The distinct values of q, each once, in the order of first appearance.
RECURSIVE FirstAppearances(_)
FirstAppearances(q) ==
    IF q = <<>> THEN <<>>
    ELSE LET before == FirstAppearances(SubSeq(q, 1, Len(q) - 1))
         IN  IF Last(q) \in Range(before) THEN before ELSE Append(before, Last(q))

\* The first line of the block the scanner is in: the last Host line it has
\* read, or line 1 when it has read none.
CurrentBlockStart ==
    LET read == {i \in HostLineIndices(file) : i < scanPos}
    IN  IF read = {} THEN 1 ELSE CHOOSE i \in read : \A j \in read : j <= i

\* The Host lines of the blocks of f that hold a menu line, ascending.
MenuBlocks(f) == Ascending({i \in HostLineIndices(f) : BlockHasMenu(f, i)})

(***************************************************************************)
(* C26: whatever group lines a block holds, the Groups of its entry are    *)
(* the distinct trimmed values of those lines, each exactly once, in the   *)
(* order of first appearance: a repeated group line neither adds a         *)
(* duplicate nor reorders the list.  It holds of the entry in progress     *)
(* after every line and of every entry of the list returned.               *)
(***************************************************************************)
C26_GroupsDistinctInOrder ==
    /\ current.Groups =
          FirstAppearances(GroupValues(file, CurrentBlockStart, scanPos - 1))
    /\ (ret.returned /\ ~ret.err) =>
          /\ Len(ret.hosts) = Len(MenuBlocks(file))
          /\ \A n \in 1..Len(ret.hosts) :
                ret.hosts[n].Groups =
                    FirstAppearances(GroupValues(file, MenuBlocks(file)[n],
                                                 BlockEnd(file, MenuBlocks(file)[n])))

\* A block with the group lines Q, P and P again, spelled with other white
\* space: its entry is returned with the groups Q, P.
C26_Witness ==
    /\ ret.returned
    /\ Len(ret.hosts) = 1
    /\ ret.hosts[1].Groups = << <<"Q">>, <<"P">> >>
    /\ Len(GroupValues(file, 1, Len(file))) = 3

\* The entry a Host line starts: the name twice, user root, port 22, and
\* nothing else.
FreshEntry(name) ==
    [ShortName |-> name, LongName |-> name, User |-> <<"r", "o", "o", "t">>,
     Port |-> <<"2", "2">>, IP |-> <<>>, IdentityFile |-> <<>>, DescText |-> <<>>,
     MenuNumber |-> 0, Groups |-> <<>>, ServerAliveInterval |-> 0,
     ServerAliveCountMax |-> 0, ConnectTimeout |-> 0]

\* The entries of a file whose lines are those of the block of f that starts
\* at line i, and no other.
EntriesOfBlock(f, i) ==
    readConfigFile([readable |-> TRUE, lines |-> SubSeq(f, i, BlockEnd(f, i))]).hosts

\* The entries of the blocks of f, each block parsed on its own, in file order.
RECURSIVE EntriesOfBlocks(_, _)
EntriesOfBlocks(f, idx) ==
    IF idx = <<>> THEN <<>>
    ELSE EntriesOfBlock(f, Head(idx)) \o EntriesOfBlocks(f, Tail(idx))

(***************************************************************************)
(* C27: every Host line starts a fresh entry: user root, port 22, no       *)
(* group, zero timeouts, MenuNumber 0, empty DescText, IP and IdentityFile,*)
(* LongName equal to ShortName.  No field set by the lines of an earlier   *)
(* block, or by lines before the first Host line, carries over: the list   *)
(* returned is that of the blocks parsed each on its own.  An entry that   *)
(* was appended to the list is not modified by a later line.               *)
(***************************************************************************)
C27_HostLineStartsFreshEntry ==
    /\ [][(~ret.returned /\ scanPos <= Len(file) /\ IsHostLine(file[scanPos])) =>
             current' = FreshEntry(BlockName(file, scanPos))]_vars
    /\ [][/\ Len(hosts') >= Len(hosts)
          /\ \A i \in 1..Len(hosts) : hosts'[i] = hosts[i]]_vars
    /\ []((ret.returned /\ ~ret.err) =>
             ret.hosts = EntriesOfBlocks(file, Ascending(HostLineIndices(file))))

\* Two entries returned: the first with the user its block sets, the second
\* with the user and the long name of a fresh entry.
C27_Witness ==
    /\ ret.returned
    /\ Len(ret.hosts) = 2
    /\ ret.hosts[1].User # <<"r", "o", "o", "t">>
    /\ ret.hosts[2].User = <<"r", "o", "o", "t">>
    /\ ret.hosts[2].LongName = ret.hosts[2].ShortName

\* A line of the exact shape `Hostname <value>`, and its value.
IsExactHostnameLine(l) ==
    LET line == TrimSpace(l)
    IN  /\ Len(line) > 9
        /\ SubSeq(line, 1, 8) = <<"H", "o", "s", "t", "n", "a", "m", "e">>
        /\ IsSpace(line[9])

HostnameValue(l) == TrimLeft(Drop(TrimSpace(l), 9))

\* A line spelled `HostName <value>`, as in the README and the example file.
IsReadmeHostNameLine(l) ==
    LET line == TrimSpace(l)
    IN  /\ Len(line) > 9
        /\ SubSeq(line, 1, 8) = <<"H", "o", "s", "t", "N", "a", "m", "e">>
        /\ IsSpace(line[9])

\* The lines of the block of f that starts at line i that are `Hostname` lines.
HostnameLines(f, i) == {j \in i + 1..BlockEnd(f, i) : IsExactHostnameLine(f[j])}

lnMenuZero == <<"#", " ", "M", "e", "n", "u", " ", "0", ":", " ", "x">>

\* The menu numbers of a list, in its order.
MenuNumbers(hs) == [i \in 1..Len(hs) |-> hs[i].MenuNumber]

\* Every number is at least 1 and no two entries share one.
PositiveAndDistinct(hs) ==
    /\ \A i \in 1..Len(hs) : hs[i].MenuNumber >= 1
    /\ \A i, j \in 1..Len(hs) : i # j => hs[i].MenuNumber # hs[j].MenuNumber

(***************************************************************************)
(* C29: whenever AssignMenuNumbers returns, every entry of its result has  *)
(* a MenuNumber of at least 1 and no two entries share a MenuNumber, for   *)
(* every list the parser can hand it; a number written as 0 is the same to *)
(* it as no number.  The list main searches and shows is that result.      *)
(***************************************************************************)
C29_NumbersPositiveAndDistinct ==
    /\ (regCall.fn = "AssignMenuNumbers" /\ ~regCall.out.exit) =>
          PositiveAndDistinct(regCall.out.hosts)
    /\ mainPc = "numbered" => PositiveAndDistinct(mainHosts)
    /\ parseLine(lnMenuZero, NewHost(<<"a">>), <<>>).current.MenuNumber = 0

\* Two entries without a number around an entry with number 1: they get 2
\* and 3.
C29_Witness ==
    /\ regCall.fn = "AssignMenuNumbers"
    /\ ~regCall.out.exit
    /\ MenuNumbers(regCall.arg) = <<0, 1, 0>>
    /\ MenuNumbers(regCall.out.hosts) = <<1, 2, 3>>
    /\ mainPc = "numbered"

\* filteredHosts is what updateFilteredHosts would store now.
UpToDate(mm) == updateFilteredHosts(mm).filteredHosts = mm.filteredHosts

(***************************************************************************)
(* C30: in every state of the selector, from SetupUI on and after any      *)
(* sequence of keys and resizes, filteredHosts is what the filter          *)
(* recomputation gives for the current viewIndex, filterText and hosts.    *)
(* No message changes viewIndex or filterText without refreshing           *)
(* filteredHosts, and none changes hosts or groups.                        *)
(***************************************************************************)
C30_FilteredHostsUpToDate ==
    /\ [](uiPc # "idle" => UpToDate(m) /\ m.groups = GetAllGroups(m.hosts))
    /\ [][(m'.viewIndex # m.viewIndex \/ m'.filterText # m.filterText) => UpToDate(m')]_vars
    /\ [][m'.hosts = m.hosts /\ m'.groups = m.groups]_vars

\* The Backspace key in a group view has left a text of one character, and
\* the hosts it lists are fewer than all the hosts.
C30_Witness ==
    /\ msg.type = "KeyBackspace"
    /\ m.viewIndex > 0
    /\ m.filterText # <<>>
    /\ m.filteredHosts # <<>>
    /\ Len(m.filteredHosts) < Len(m.hosts)

\* The cursor is on an entry of filteredHosts.
CursorOnEntry(mm) == 0 <= mm.cursor /\ mm.cursor < Len(mm.filteredHosts)

(***************************************************************************)
(* C31: in every state of the selector in which filteredHosts is not       *)
(* empty the cursor is on one of its entries, 0 <= cursor <                *)
(* Len(filteredHosts), whatever cursor moves, filter edits and view        *)
(* changes came before, an empty filtered list in between included: a      *)
(* message that makes an empty list non-empty leaves the cursor at 0.      *)
(* Hence the Enter key reads filteredHosts within its bounds.              *)
(***************************************************************************)
C31_CursorWithinNonEmptyList ==
    /\ []((uiPc # "idle" /\ m.filteredHosts # <<>>) => CursorOnEntry(m))
    /\ [][(m.filteredHosts = <<>> /\ m'.filteredHosts # <<>>) => m'.cursor = 0]_vars
    /\ [][(msg'.type = "KeyEnter" /\ m'.Selected # <<>>) =>
             /\ CursorOnEntry(m)
             /\ m'.Selected[1] \in Range(m.filteredHosts)]_vars

\* A filter is typed, it lists two hosts and the cursor is on the second,
\* the last entry of the list.
C31_Witness ==
    /\ uiPc = "running"
    /\ m.filterText # <<>>
    /\ Len(m.filteredHosts) = 2
    /\ m.cursor = 1

(***************************************************************************)
(* C32: the cursor is never negative: in every state of the selector,      *)
(* those in which the filter lists no host and the cursor-up or the        *)
(* cursor-down key is pressed included, cursor >= 0.                       *)
(***************************************************************************)
C32_CursorNeverNegative == uiPc # "idle" => m.cursor >= 0

\* Some host carries a group whose name is literally "Ungrouped".
CarriesUngroupedLiteral(hs) == \E i \in 1..Len(hs) : sUngrouped \in Range(hs[i].Groups)

(***************************************************************************)
(* C33: for every host list and every group g that GetAllGroups returns,   *)
(* the selector's host list for the view of g and the list the -g g filter *)
(* keeps both equal GroupHosts(hosts)[g], also when a host carries a group *)
(* literally named "Ungrouped"; and in a group view with an empty filter   *)
(* filteredHosts is that list.                                             *)
(***************************************************************************)
C33_ViewsAgreeWithGroupHosts ==
    uiPc # "idle" =>
        /\ \A g \in Range(GetAllGroups(m.hosts)) :
              /\ getHostsForGroup(m, g) = GroupHosts(m.hosts)[g]
              /\ filterHostsByGroup(m.hosts, g) = GroupHosts(m.hosts)[g]
        /\ (m.viewIndex > 0 /\ m.filterText = <<>>) =>
              m.filteredHosts = GroupHosts(m.hosts)[m.groups[m.viewIndex]]

=============================================================================
